---- MODULE Spec2Model ----
(***************************************************************************)
(* Transaction cache synchronisation and analytics of                      *)
(* SpennX-Purse-Engine:                                                    *)
(*   app/transaction_sync.py  TransactionSyncService (fetch, merge, sync)  *)
(*   app/scheduler.py         TransactionSyncScheduler, scheduled job      *)
(*   app/sync_routes.py       manual sync and scheduler entry points       *)
(*   app/models.py            TransactionCache (the cache table)           *)
(*   app/currency_rates.py    CURRENCY_RATES, convert_to_usd               *)
(*   app/formatters.py        round_decimal, format_currency               *)
(*   app/main.py              period stats, currency breakdown, daily trend*)
(*   app/reports.py           week metrics, week-over-week changes         *)
(*   app/utils.py             the canned date ranges                       *)
(*                                                                         *)
(* Specifications:                                                         *)
(*   Spec       the process: scheduler start/stop, periodic fires, manual  *)
(*              daily and full syncs, interleaved at their awaits          *)
(*   SpecMerge  sync_to_database called repeatedly by one caller, record   *)
(*              by record, on arbitrary batches                            *)
(*   SpecTwice  sync_to_database called twice with the same one record     *)
(*   SpecFetch  fetch_all_pages against an upstream of 1..MaxPages pages   *)
(*   SpecUsd    convert_to_usd applied to one (amount, currency, rate)     *)
(*   SpecWow    calculate_week_over_week_changes applied to two weeks      *)
(*   SpecAgg    the aggregations of main.py and reports.py applied to a    *)
(*              table of at most MaxRows rows                              *)
(*   SpecCal    the canned windows of utils.py and the weekly report's     *)
(*              windows, computed from a clock reading                     *)
(*   SpecPar    two sync executions and an aggregation, each on its own    *)
(*              session, step by step on one store                         *)
(*   SpecTimer  the interval trigger of the scheduled job against a clock  *)
(***************************************************************************)
EXTENDS Integers, Sequences, FiniteSets, TLC

(***************************************************************************)
(* Bounds of the model                                                     *)
(***************************************************************************)
\* longest batch handed to sync_to_database
MaxBatch == 2
\* last instant of the database clock (CURRENT_TIMESTAMP), instants 1..MaxTime
MaxTime == 2
\* most pages an upstream holds, and the largest page number it reports
MaxPages == 3
\* most requests of one fetch_all_pages call that the model follows
MaxRequests == 3

\* largest transaction count of a week handed to the week-over-week changes
MaxCount == 2
\* most rows of transaction_cache that an aggregation runs over
MaxRows == 3
\* the instants created_at, start and end range over (two to a calendar day)
MaxInstant == 4

(***************************************************************************)
(* Values                                                                  *)
(***************************************************************************)
\* Python None in a string-valued payload field / SQL NULL in a string column
None == "None"
\* SQL NULL in the DateTime column created_at (models.py: nullable=True)
NoTime == 0

Ids == {"a", "b", "c"}
Statuses == {"success", "failed"}
\* wire formats of created_at: instant 1, instant 2, and a string that
\* datetime.fromisoformat rejects
CreatedStrs == {"T1Z", "T2Z", "garbage"}

\* upstream records: JSON objects (kind "dict") and JSON values that are no
\* objects (kind "str"); the fields not listed here are copied like status
Payload(i, a, s, c) ==
    [kind |-> "dict", id |-> i, amount |-> a, status |-> s, created_at |-> c]
NonDict == [kind |-> "str", id |-> None, amount |-> None, status |-> None, created_at |-> None]

RecordPool ==
    {Payload("a", "100", s, c) : s \in Statuses, c \in CreatedStrs}
    \cup {Payload("b", "100", "success", "T1Z")}
    \cup {Payload(None, "100", "success", "T1Z"),
          Payload("a", None, "success", "T1Z"),
          NonDict}

RecA == Payload("a", "100", "success", "T1Z")
RecB == Payload("b", "100", "success", "T1Z")
RecB2 == Payload("b", "100", "failed", "T1Z")
RecC == Payload("c", "100", "success", "T2Z")

VARIABLES
    cache,          \* committed rows of transaction_cache
    now,            \* the database clock
    found_rows,     \* connection flag CLIENT_FOUND_ROWS
    on_update_ts,   \* updated_at column is ON UPDATE CURRENT_TIMESTAMP
    call,           \* the running sync_to_database call of SpecMerge
    hist,           \* history: per id, what was merged and committed
    callhist,       \* history: what the running call has processed
    twice,          \* SpecTwice: the record merged twice and what each call returned
    upstream,       \* SpecFetch: the upstream API (pages, and whether it echoes the page)
    fetcher,        \* SpecFetch: the running fetch_all_pages call
    fhist,          \* history: the pages requested and the meta received
    sched,          \* Spec: the TransactionSyncScheduler singleton
    exec,           \* Spec: the sync executions, scheduled and manual
    watch,          \* history: the last start/stop call and the last fire
    conv,           \* SpecUsd: the convert_to_usd call, its arguments and result
    wow,            \* SpecWow: the two weeks' metrics and the changes computed
    txns,           \* SpecAgg: rows of transaction_cache, the columns aggregations read
    agg,            \* SpecAgg: the aggregation called, its window and its result
    cal,            \* SpecCal: the clock reading and the window computed from it
    par,            \* SpecPar: the store, two merging sessions and a reading one
    tmr             \* SpecTimer: the clock, the job's next run time and its runs

mergeVars == <<cache, now, found_rows, on_update_ts, call, hist, callhist>>
fetchVars == <<upstream, fetcher, fhist>>
sysVars == <<sched, exec, watch>>
lateVars == <<cal, par, tmr>>
calcVars == <<conv, wow, txns, agg, lateVars>>
vars == <<cache, now, found_rows, on_update_ts, call, hist, callhist, twice,
          upstream, fetcher, fhist, sched, exec, watch, conv, wow, txns, agg,
          cal, par, tmr>>

(***************************************************************************)
(* sync_to_database                                                        *)
(***************************************************************************)
\* created_at_str.replace('Z', '+00:00') then datetime.fromisoformat; a
\* missing value or a parse failure leaves created_at = None
ParseCreatedAt(s) ==
    CASE s = "T1Z" -> 1
      [] s = "T2Z" -> 2
      [] OTHER -> NoTime

\* txn_dict
TxnDict(rec) ==
    [id |-> rec.id, amount |-> rec.amount, status |-> rec.status,
     created_at |-> ParseCreatedAt(rec.created_at)]

RowsOf(rows, i) == {r \in rows : r.id = i}

\* (variants of the update below that leave one column out of update_dict)
OnDuplicateKeyUpdate_KeepsStatus(old, v) ==
    [old EXCEPT !.amount = v.amount, !.created_at = v.created_at]
OnDuplicateKeyUpdate_KeepsCreatedAt(old, v) ==
    [old EXCEPT !.amount = v.amount, !.status = v.status]
\* the columns an existing row gets from ON DUPLICATE KEY UPDATE: every key of
\* txn_dict but id
OnDuplicateKeyUpdate(old, v) ==
    [old EXCEPT !.amount = v.amount, !.status = v.status,
                !.created_at = v.created_at]

\* (variant: a table without the primary key)
DuplicateKey_Never(rows, v) == FALSE
\* the primary key decides between insert and update
DuplicateKey(rows, v) == RowsOf(rows, v.id) # {}

\* db.execute(insert(TransactionCache).values(..).on_duplicate_key_update(..))
\* on MySQL: [rows, rowcount, error]
\*   id (primary key) or amount (nullable=False) NULL: the statement fails
\*   no row with the id: insert, cached_at = updated_at = now, 1 row affected
\*   a row with the id, some column changes: 2 rows affected; updated_at moves
\*     only when the column is ON UPDATE CURRENT_TIMESTAMP (Column.onupdate is
\*     not applied to ON DUPLICATE KEY UPDATE)
\*   a row with the id, set to its current values: the row and updated_at stay;
\*     0 rows affected, 1 with CLIENT_FOUND_ROWS
Execute(rows, v, t, foundRows, onUpdateTs) ==
    IF v.id = None \/ v.amount = None
    THEN [rows |-> rows, rowcount |-> 0, error |-> TRUE]
    ELSE IF ~DuplicateKey(rows, v)
    THEN [rows |-> rows \cup {[id |-> v.id, amount |-> v.amount,
                               status |-> v.status, created_at |-> v.created_at,
                               cached_at |-> t, updated_at |-> t]},
          rowcount |-> 1, error |-> FALSE]
    ELSE LET old == CHOOSE r \in RowsOf(rows, v.id) : TRUE
             new == OnDuplicateKeyUpdate(old, v)
         IN  IF new = old
             THEN [rows |-> rows, rowcount |-> IF foundRows THEN 1 ELSE 0,
                   error |-> FALSE]
             ELSE [rows |-> (rows \ {old}) \cup
                            {[new EXCEPT !.updated_at =
                                  IF onUpdateTs THEN t ELSE old.updated_at]},
                   rowcount |-> 2, error |-> FALSE]

\* (variant: total counts only the records that were upserted)
SyncRecord_SkippedUncounted(st, rec, t, foundRows, onUpdateTs) ==
    IF rec.kind # "dict"
    THEN [st EXCEPT !.pc = "raised"]
    ELSE LET res == Execute(st.rows, TxnDict(rec), t, foundRows, onUpdateTs)
         IN  IF res.error
             THEN st
             ELSE [st EXCEPT !.rows = res.rows,
                             !.n = st.n + 1,
                             !.inserted = IF res.rowcount = 1 THEN st.inserted + 1
                                          ELSE st.inserted,
                             !.updated = IF res.rowcount = 2 THEN st.updated + 1
                                         ELSE st.updated]
\* one iteration of the loop over transactions; st = [pc, rows, inserted,
\* updated, n].  A record that is no dict raises at txn_data.get inside the
\* try, and again at txn_data.get('id') inside the except handler: the second
\* error leaves sync_to_database.
SyncRecord(st, rec, t, foundRows, onUpdateTs) ==
    IF rec.kind # "dict"
    THEN [st EXCEPT !.pc = "raised", !.n = st.n + 1]
    ELSE LET res == Execute(st.rows, TxnDict(rec), t, foundRows, onUpdateTs)
         IN  IF res.error
             THEN [st EXCEPT !.n = st.n + 1]
             ELSE [st EXCEPT !.rows = res.rows,
                             !.n = st.n + 1,
                             !.inserted = IF res.rowcount = 1 THEN st.inserted + 1
                                          ELSE st.inserted,
                             !.updated = IF res.rowcount = 2 THEN st.updated + 1
                                         ELSE st.updated]

Idle == [pc |-> "idle", rows |-> {}, inserted |-> 0, updated |-> 0, n |-> 0]

RECURSIVE SyncLoop(_, _, _, _, _)
\* the loop over transactions, left to right, up to the first error that
\* leaves the function
SyncLoop(st, batch, t, foundRows, onUpdateTs) ==
    IF batch = <<>> \/ st.pc = "raised"
    THEN st
    ELSE SyncLoop(SyncRecord(st, Head(batch), t, foundRows, onUpdateTs),
                  Tail(batch), t, foundRows, onUpdateTs)

\* sync_to_database(transactions, db) as one step: the loop, then db.commit()
\* and the counts; an error that leaves the loop leaves the rows uncommitted
\* (the caller closes the session)
sync_to_database(batch, rows, t, foundRows, onUpdateTs) ==
    LET st == SyncLoop([Idle EXCEPT !.pc = "running", !.rows = rows],
                       batch, t, foundRows, onUpdateTs)
    IN  IF st.pc = "raised"
        THEN [st EXCEPT !.rows = rows]
        ELSE [st EXCEPT !.pc = "returned"]

(***************************************************************************)
(* fetch_all_pages                                                         *)
(***************************************************************************)
\* a key missing from the response's meta (meta.get falls to its default)
NoPage == 0

\* a failed page request: fetch_transactions re-raises the transport error
\* and the error of raise_for_status on a non-2xx response
Failure == [ok |-> FALSE, data |-> <<>>, current_page |-> NoPage, last_page |-> NoPage]
Response(d, c, l) == [ok |-> TRUE, data |-> d, current_page |-> c, last_page |-> l]

StartFetch == [pc |-> "fetching", page |-> 1, acc |-> <<>>]
NoFetch == [pc |-> "idle", page |-> 1, acc |-> <<>>]

\* current_page and last_page as the loop reads them from a response
MetaCurrent(st, resp) ==
    IF resp.current_page = NoPage THEN st.page ELSE resp.current_page
\* (variant: a missing last_page is taken as one page more)
MetaLast_OneMore(st, resp) ==
    IF resp.last_page = NoPage THEN MetaCurrent(st, resp) + 1 ELSE resp.last_page
MetaLast(st, resp) ==
    IF resp.last_page = NoPage THEN MetaCurrent(st, resp) ELSE resp.last_page

\* (variant: `>` in place of `>=`)
LastPageReached_Strict(cur, last) == cur > last
\* the loop's exit test
LastPageReached(cur, last) == cur >= last

\* one iteration of `while True` on a response; st = [pc, page, acc], page
\* the next page to request
FetchOk(st, resp) ==
    LET cur == MetaCurrent(st, resp)
        last == MetaLast(st, resp)
    IN  IF LastPageReached(cur, last)
        THEN [st EXCEPT !.pc = "returned", !.page = cur,
                        !.acc = st.acc \o resp.data]
        ELSE [st EXCEPT !.page = cur + 1, !.acc = st.acc \o resp.data]

\* (variant: a failed request is taken as an empty response)
FetchStep_SwallowsFailure(st, resp) ==
    IF ~resp.ok THEN FetchOk(st, Response(<<>>, NoPage, NoPage)) ELSE FetchOk(st, resp)
\* one iteration of `while True`: the error of a failed request leaves
\* fetch_all_pages
FetchStep(st, resp) ==
    IF ~resp.ok THEN [st EXCEPT !.pc = "raised"] ELSE FetchOk(st, resp)

(***************************************************************************)
(* TransactionSyncScheduler and the sync executions                        *)
(***************************************************************************)
JobId == "daily_transaction_sync"
\* add_job(.., max_instances=1)
max_instances == 1

\* two slots for instances of the scheduled job (the second is there for an
\* executor that would admit it), one manual daily sync (POST /api/sync/daily)
\* and one manual full sync (POST /api/sync/full) at a time
SchedSlots == {"job1", "job2"}
ManualSlots == {"daily", "full"}
Procs == SchedSlots \cup ManualSlots

\* what a sync asks the upstream for: a day, or every page
Days == {"today", "other"}
Queries == Days \cup {"all"}

\* db is the session of the execution (none, open, closed); outcome is the
\* way its entry point ended (none while it has not)
NoExec == [pc |-> "idle", query |-> "today", page |-> 1, acc |-> <<>>,
           page_failed |-> FALSE, merged |-> FALSE, db |-> "none", outcome |-> "none"]
NewScheduler == [is_running |-> FALSE, state |-> "stopped", jobs |-> <<>>, instances |-> 0]
NoWatch == [op |-> "none", noop |-> FALSE, raised |-> FALSE, changed |-> FALSE,
            last_change |-> "none", fire_parity |-> FALSE, last_fire |-> "none"]

\* no convert_to_usd call, no report, no aggregation, an empty table
NoConv == [pc |-> "idle"]
NoWow == [pc |-> "idle"]
NoAgg == [pc |-> "idle"]
\* no window computed, no session open on the store, no trigger running
NoCal == [pc |-> "idle"]
NoPar == [pc |-> "idle"]
NoTmr == [pc |-> "idle"]
LateIdle ==
    /\ cal = NoCal
    /\ par = NoPar
    /\ tmr = NoTmr
CalcIdle ==
    /\ conv = NoConv
    /\ wow = NoWow
    /\ txns = {}
    /\ agg = NoAgg
    /\ LateIdle

\* __init__ of the scheduler singleton; no execution
SysIdle ==
    /\ sched = NewScheduler
    /\ exec = [p \in Procs |-> NoExec]
    /\ watch = NoWatch

\* an execution is in progress from its start to the return (or the error) of
\* daily_sync / full_sync
Active(p) == exec[p].pc \in {"fetching", "returned"}

\* scheduler.add_job(.., id=JobId, replace_existing=True)
AddJob(jobs, id) == Append(SelectSeq(jobs, LAMBDA j : j # id), id)

\* `if self._is_running: return` of start()
\* (variant without the guard)
StartGuard_Missing(sc) == FALSE
StartGuard(sc) == sc.is_running
\* `if not self._is_running: return` of stop()
StopGuard(sc) == ~sc.is_running

\* start(): [sched, raised]; AsyncIOScheduler.start() raises
\* SchedulerAlreadyRunningError on a running scheduler
start(sc) ==
    IF StartGuard(sc)
    THEN [sched |-> sc, raised |-> FALSE]
    ELSE LET added == [sc EXCEPT !.jobs = AddJob(sc.jobs, JobId)]
         IN  IF added.state = "running"
             THEN [sched |-> added, raised |-> TRUE]
             ELSE [sched |-> [added EXCEPT !.state = "running", !.is_running = TRUE],
                   raised |-> FALSE]

\* self._is_running = False after shutdown()
AfterShutdown(sc) == [sc EXCEPT !.is_running = FALSE]

\* stop(): [sched, raised]; AsyncIOScheduler.shutdown() raises
\* SchedulerNotRunningError on a stopped scheduler, and shuts the job store
\* down (the memory job store drops its jobs; keepJobs is a store that keeps
\* them)
stop(sc, keepJobs) ==
    IF StopGuard(sc)
    THEN [sched |-> sc, raised |-> FALSE]
    ELSE IF sc.state = "stopped"
         THEN [sched |-> sc, raised |-> TRUE]
         ELSE [sched |-> AfterShutdown([sc EXCEPT !.state = "stopped",
                                  !.jobs = IF keepJobs THEN sc.jobs ELSE <<>>]),
               raised |-> FALSE]

\* the executor's test before it runs a due job: MaxInstancesReachedError
\* when the job's running instances have reached max_instances
\* (variants: one instance more allowed; no limit)
CanSubmit_TwoInstances(instances) == instances < max_instances + 1
CanSubmit_Always(instances) == TRUE
CanSubmit(instances) == instances < max_instances

\* the upstream of Spec echoes the page requested; its pages, and the data a
\* page may hold when it is requested
PagesOf(q) == IF q = "other" THEN 1 ELSE 2
PageAlternatives(q, page) ==
    CASE q = "today" /\ page = 1 -> {<<RecA>>}
      [] q = "today" /\ page = 2 -> {<<RecB>>, <<RecB2>>}
      [] q = "other" /\ page = 1 -> {<<RecC>>, <<RecC, NonDict>>}
      [] q = "all" /\ page = 1 -> {<<RecA, RecB>>}
      [] q = "all" /\ page = 2 -> {<<RecB2, RecC>>}
      [] OTHER -> {<<>>}
UpstreamResponses(q, page) ==
    {Failure} \cup {Response(d, page, PagesOf(q)) : d \in PageAlternatives(q, page)}

\* what start()/stop() may change: the flag, the underlying scheduler's
\* state and its registered jobs
View(sc) == <<sc.is_running, sc.state, sc.jobs>>

\* the history notes of a start()/stop() call: was it made in the state where
\* it is to be a no-op, did it raise, did it change the scheduler, and which
\* call last changed the scheduler
Noted(op, isNoop, before, res) ==
    [watch EXCEPT !.op = op, !.noop = isNoop, !.raised = res.raised,
                  !.changed = View(res.sched) # View(before),
                  !.last_change = IF View(res.sched) # View(before)
                                  THEN op ELSE watch.last_change]

(***************************************************************************)
(* History variables of the merge (they record, they never decide)         *)
(***************************************************************************)
\* a record whose processing raises no error: a JSON object with an id and
\* an amount
Valid(rec) == rec.kind = "dict" /\ rec.id # None /\ rec.amount # None

NoHist == [n |-> 0, last |-> NonDict, first_cached |-> NoTime]

\* the id's history after one more valid record was processed at instant t;
\* n counts 1, 2 (= more than once)
Record(h, rec, t) ==
    [h EXCEPT ![rec.id] =
        [n |-> IF h[rec.id].n = 0 THEN 1 ELSE 2,
         last |-> rec,
         first_cached |-> IF h[rec.id].n = 0 THEN t ELSE h[rec.id].first_cached]]

(***************************************************************************)
(* SpecMerge: one caller of sync_to_database                               *)
(***************************************************************************)
NoTwice == [rec |-> NonDict, done |-> 0, results |-> <<>>]

NoUpstream == [n |-> 1, echo |-> TRUE, data |-> <<<<>>>>]
NoFetchHist == [requests |-> <<>>, stop |-> FALSE, late |-> FALSE, nometa |-> FALSE]
FetchIdle ==
    /\ upstream = NoUpstream
    /\ fetcher = NoFetch
    /\ fhist = NoFetchHist
    /\ SysIdle

InitMerge ==
    /\ CalcIdle
    /\ FetchIdle
    /\ twice = NoTwice
    /\ cache = {}
    /\ now = 1
    /\ found_rows \in BOOLEAN
    /\ on_update_ts \in BOOLEAN
    /\ call = Idle
    /\ hist = [i \in Ids |-> NoHist]
    /\ callhist = [h |-> [i \in Ids |-> NoHist], errors |-> 0, ids |-> {}, passed |-> 0]

\* entry of sync_to_database(transactions, db): the session sees the
\* committed rows
MergeCall ==
    /\ call.pc # "running"
    /\ call' = [Idle EXCEPT !.pc = "running", !.rows = cache]
    /\ callhist' = [h |-> hist, errors |-> 0, ids |-> {}, passed |-> 0]
    /\ UNCHANGED <<cache, now, found_rows, on_update_ts, hist>>

\* one iteration of `for txn_data in transactions`
MergeRecord(rec) ==
    /\ call.pc = "running"
    /\ call.n < MaxBatch
    /\ call' = SyncRecord(call, rec, now, found_rows, on_update_ts)
    /\ callhist' = IF Valid(rec)
                   THEN [callhist EXCEPT !.h = Record(callhist.h, rec, now),
                                         !.ids = callhist.ids \cup {rec.id},
                                         !.passed = callhist.passed + 1]
                   ELSE [callhist EXCEPT !.errors = callhist.errors + 1,
                                         !.passed = callhist.passed + 1]
    /\ UNCHANGED <<cache, now, found_rows, on_update_ts, hist>>

\* end of the loop: db.commit() and the returned counts (total = n)
MergeCommit ==
    /\ call.pc = "running"
    /\ call' = [call EXCEPT !.pc = "returned"]
    /\ cache' = call.rows
    /\ hist' = callhist.h
    /\ UNCHANGED <<now, found_rows, on_update_ts, callhist>>

\* CURRENT_TIMESTAMP advances
Tick ==
    /\ now < MaxTime
    /\ now' = now + 1
    /\ UNCHANGED <<cache, found_rows, on_update_ts, call, hist, callhist>>

NextMerge ==
    \/ MergeCall /\ UNCHANGED <<twice, fetchVars, sysVars, calcVars>>
    \/ \E rec \in RecordPool : MergeRecord(rec) /\ UNCHANGED <<twice, fetchVars, sysVars, calcVars>>
    \/ MergeCommit /\ UNCHANGED <<twice, fetchVars, sysVars, calcVars>>
    \/ Tick /\ UNCHANGED <<twice, fetchVars, sysVars, calcVars>>

SpecMerge == InitMerge /\ [][NextMerge]_vars

(***************************************************************************)
(* SpecTwice: sync_to_database([rec], db) called twice in a row with the   *)
(* same valid record, on a cache that does not hold its id                 *)
(***************************************************************************)
InitTwice ==
    /\ CalcIdle
    /\ FetchIdle
    /\ now = 1
    /\ found_rows \in BOOLEAN
    /\ on_update_ts \in BOOLEAN
    /\ call = Idle
    /\ hist = [i \in Ids |-> NoHist]
    /\ callhist = [h |-> [i \in Ids |-> NoHist], errors |-> 0, ids |-> {}, passed |-> 0]
    /\ \E rec \in {r \in RecordPool : Valid(r)} :
          /\ twice = [rec |-> rec, done |-> 0, results |-> <<>>]
          /\ \E other \in Ids \ {rec.id} :
                cache \in {{}, {[id |-> other, amount |-> "100", status |-> "success",
                                created_at |-> 1, cached_at |-> 1, updated_at |-> 1]}}

TwiceCall ==
    /\ twice.done < 2
    /\ MergeCall
    /\ UNCHANGED <<twice, fetchVars, sysVars, calcVars>>

TwiceRecord ==
    /\ call.n = 0
    /\ MergeRecord(twice.rec)
    /\ UNCHANGED <<twice, fetchVars, sysVars, calcVars>>

\* the call returns; results keeps its counts, the instant it ran at and the
\* committed row of the record's id
TwiceCommit ==
    /\ call.n = 1
    /\ MergeCommit
    /\ twice' = [twice EXCEPT
            !.done = twice.done + 1,
            !.results = Append(twice.results,
                [inserted |-> call.inserted, updated |-> call.updated,
                 at |-> now, rows |-> RowsOf(call.rows, twice.rec.id)])]
    /\ UNCHANGED <<fetchVars, sysVars, calcVars>>

NextTwice ==
    \/ TwiceCall
    \/ TwiceRecord
    \/ TwiceCommit
    \/ Tick /\ UNCHANGED <<twice, fetchVars, sysVars, calcVars>>

SpecTwice == InitTwice /\ [][NextTwice]_vars

\* C1: the first call reports inserted=1, updated=0, the second inserted=0,
\* updated=1; cached_at is the same after both and updated_at is later after
\* the second (the clock advanced between the calls).
C1_SecondMergeUpdates ==
    (twice.done = 2 /\ twice.results[1].at < twice.results[2].at) =>
        /\ twice.results[1].inserted = 1 /\ twice.results[1].updated = 0
        /\ twice.results[2].inserted = 0 /\ twice.results[2].updated = 1
        /\ \A r1 \in twice.results[1].rows : \A r2 \in twice.results[2].rows :
              /\ r2.cached_at = r1.cached_at
              /\ r2.updated_at > r1.updated_at

\* what the code does for C1: the second statement sets the row to its
\* current values, which MySQL reports as 0 affected rows (1 with
\* CLIENT_FOUND_ROWS), never 2, and the row, updated_at included, stays
C1_Observed ==
    twice.done = 2 =>
        /\ twice.results[1].inserted = 1 /\ twice.results[1].updated = 0
        /\ twice.results[2].inserted = (IF found_rows THEN 1 ELSE 0)
        /\ twice.results[2].updated = 0
        /\ twice.results[2].rows = twice.results[1].rows
        /\ Cardinality(twice.results[2].rows) = 1

(***************************************************************************)
(* Claims on SpecMerge                                                     *)
(***************************************************************************)
\* the row of id i agrees with payload rec in every column the payload sets
Agrees(r, rec) ==
    /\ r.amount = rec.amount
    /\ r.status = rec.status
    /\ r.created_at = ParseCreatedAt(rec.created_at)

\* C6: when a record of the batch raises an error, merge returns normally,
\* the record counts neither as inserted nor as updated, and every other
\* record of the batch is processed and committed.
C6_SkipAndContinue ==
    (call.pc \in {"returned", "raised"} /\ callhist.errors >= 1) =>
        /\ call.pc = "returned"
        /\ call.inserted + call.updated <= call.n - callhist.errors
        /\ \A i \in callhist.ids :
              \E r \in cache : r.id = i /\ Agrees(r, callhist.h[i].last)

\* what the code does for C6: the statement holds of every batch of JSON
\* objects (the error of a record that is no object leaves the handler)
C6_ObjectsOnly ==
    (call.pc = "returned" /\ callhist.errors >= 1) =>
        /\ call.inserted + call.updated <= call.n - callhist.errors
        /\ \A i \in callhist.ids :
              \E r \in cache : r.id = i /\ Agrees(r, callhist.h[i].last)

\* C7: the row of an id merged more than once agrees with the most recently
\* merged payload of that id in every column but id and cached_at, and its
\* cached_at is the instant of its first insert.
C7_LastMergeWins ==
    \A i \in Ids :
        hist[i].n = 2 =>
            /\ RowsOf(cache, i) # {}
            /\ \A r \in RowsOf(cache, i) :
                  /\ Agrees(r, hist[i].last)
                  /\ r.cached_at = hist[i].first_cached

\* C7 witness: id a was merged twice, the second time at a later instant and
\* with a different payload
C7_Witness ==
    /\ hist["a"].n = 2
    /\ \E r \in RowsOf(cache, "a") :
          /\ r.cached_at = 1
          /\ r.updated_at = 2
          /\ r.status = "failed"
          /\ r.created_at = 2

\* C8 as claimed: the created_at of a cached row never changes.
C8_CreatedAtNeverChanges ==
    [][\A r \in cache : \A q \in cache' :
          q.id = r.id => q.created_at = r.created_at]_vars

\* C8 amended: every merge of an id overwrites created_at; the cached
\* created_at is the parsed created_at of the most recently merged payload
\* (NULL when it does not parse).
C8_CreatedAtFollowsPayload ==
    \A i \in Ids : \A r \in RowsOf(cache, i) :
        hist[i].n >= 1 => r.created_at = ParseCreatedAt(hist[i].last.created_at)

\* C8 witness: id a is cached with created_at 1; the running call re-merged
\* it with a created_at that does not parse, and its row now holds NULL
C8_Witness ==
    /\ call.pc = "running"
    /\ \E r \in RowsOf(cache, "a") : r.created_at = 1
    /\ callhist.h["a"].last.created_at = "garbage"
    /\ \E r \in RowsOf(call.rows, "a") : r.created_at = NoTime

(***************************************************************************)
(* SpecFetch: one fetch_all_pages call against an upstream of n pages.     *)
(* An echoing upstream reports current_page = the page requested and       *)
(* last_page = n; any other upstream reports whatever meta it likes.       *)
(***************************************************************************)
PageDatas == {<<>>, <<RecA>>, <<RecB, RecA>>}

\* the records the upstream holds on page p
DataOf(up, p) == IF p \in 1..up.n THEN up.data[p] ELSE <<>>

InitFetch ==
    /\ CalcIdle
    /\ cache = {}
    /\ now = 1
    /\ found_rows = FALSE
    /\ on_update_ts = FALSE
    /\ call = Idle
    /\ hist = [i \in Ids |-> NoHist]
    /\ callhist = [h |-> [i \in Ids |-> NoHist], errors |-> 0, ids |-> {}, passed |-> 0]
    /\ twice = NoTwice
    /\ fetcher = NoFetch
    /\ fhist = NoFetchHist
    /\ SysIdle
    /\ \E n \in 1..MaxPages :
          \/ \E d \in [1..n -> PageDatas] : upstream = [n |-> n, echo |-> TRUE, data |-> d]
          \/ upstream = [n |-> n, echo |-> FALSE, data |-> [p \in 1..n |-> <<RecA>>]]

\* entry of fetch_all_pages: all_transactions = [], current_page = 1
FetchCall ==
    /\ fetcher.pc = "idle"
    /\ fetcher' = StartFetch
    /\ UNCHANGED <<upstream, fhist>>

\* one iteration of the loop, the upstream answering resp; the history keeps
\* the page requested, whether this response reported current_page >=
\* last_page, whether the request came after such a response, and whether
\* this response carried no meta
FetchPage(resp) ==
    /\ fetcher.pc = "fetching"
    /\ Len(fhist.requests) < MaxRequests
    /\ fetcher' = FetchStep(fetcher, resp)
    /\ fhist' = [requests |-> Append(fhist.requests, fetcher.page),
                 stop |-> resp.ok /\ MetaCurrent(fetcher, resp) >= MetaLast(fetcher, resp),
                 late |-> fhist.late \/ fhist.stop,
                 nometa |-> resp.ok /\ resp.current_page = NoPage
                                    /\ resp.last_page = NoPage]
    /\ UNCHANGED upstream

FetchEcho ==
    /\ upstream.echo
    /\ FetchPage(Response(DataOf(upstream, fetcher.page), fetcher.page, upstream.n))

FetchAnyMeta ==
    /\ ~upstream.echo
    /\ \E c \in 0..MaxPages, l \in 0..MaxPages :
          FetchPage(Response(DataOf(upstream, fetcher.page), c, l))

FetchFails == FetchPage(Failure)

NextFetch ==
    \/ FetchCall /\ UNCHANGED <<mergeVars, twice, sysVars, calcVars>>
    \/ FetchEcho /\ UNCHANGED <<mergeVars, twice, sysVars, calcVars>>
    \/ FetchAnyMeta /\ UNCHANGED <<mergeVars, twice, sysVars, calcVars>>
    \/ FetchFails /\ UNCHANGED <<mergeVars, twice, sysVars, calcVars>>

SpecFetch == InitFetch /\ [][NextFetch]_vars

RECURSIVE Concat(_, _)
\* the records of pages 1..k in page order
Concat(up, k) == IF k = 0 THEN <<>> ELSE Concat(up, k - 1) \o DataOf(up, k)

Init ==
    /\ CalcIdle
    /\ cache = {}
    /\ now = 1
    /\ found_rows = FALSE
    /\ on_update_ts = FALSE
    /\ call = Idle
    /\ hist = [i \in Ids |-> NoHist]
    /\ callhist = [h |-> [i \in Ids |-> NoHist], errors |-> 0, ids |-> {}, passed |-> 0]
    /\ twice = NoTwice
    /\ upstream = NoUpstream
    /\ fetcher = NoFetch
    /\ fhist = NoFetchHist
    /\ SysIdle

JobRegistered(sc) == \E k \in 1..Len(sc.jobs) : sc.jobs[k] = JobId

\* scheduler.start(): lifespan startup and POST /api/sync/scheduler/start
Start ==
    LET res == start(sched) IN
    /\ sched' = res.sched
    /\ watch' = Noted("start", sched.is_running, sched, res)
    /\ UNCHANGED <<exec, cache>>

\* scheduler.stop(): lifespan shutdown and POST /api/sync/scheduler/stop.
\* The executor's shutdown cancels the running job's task (the job ends at
\* its await with CancelledError, its finally closes the session) or, for an
\* executor that does not track coroutine jobs, leaves it running.
Stop ==
    \E keepJobs \in BOOLEAN, cancel \in BOOLEAN :
        LET res == stop(sched, keepJobs)
            hit == IF cancel /\ res.sched.state # sched.state
                   THEN {p \in SchedSlots : Active(p)} ELSE {}
        IN  /\ sched' = [res.sched EXCEPT !.instances = sched.instances - Cardinality(hit)]
            /\ watch' = Noted("stop", ~sched.is_running, sched,
                              [res EXCEPT !.sched.instances = sched.instances - Cardinality(hit)])
            /\ exec' = [p \in Procs |->
                          IF p \in hit
                          THEN [NoExec EXCEPT !.pc = "cancelled", !.db = "closed",
                                              !.outcome = "cancelled"]
                          ELSE exec[p]]
            /\ UNCHANGED cache

\* entry of daily_sync / full_sync, the session opened before it
StartExec(q) == [NoExec EXCEPT !.pc = "fetching", !.query = q, !.db = "open"]

\* (variant: no except clause, and close() at the end of the try block)
EntryEnd_NoHandler(p, pc) ==
    IF pc = "done"
    THEN [db |-> "closed", outcome |-> "returned"]
    ELSE [db |-> "open", outcome |-> "raised"]
\* the end of the entry point around a sync that ended as pc (done, raised,
\* merge_raised).  scheduled_daily_sync and run_full_sync_background log the
\* error in `except Exception` and return, their `finally` closes the
\* session; trigger_daily_sync turns the error into an HTTP 500 and the
\* session of the request is closed with the request.
EntryEnd(p, pc) ==
    [db |-> "closed",
     outcome |-> IF pc = "done" \/ p # "daily" THEN "returned" ELSE "http_500"]

\* the interval trigger fires: the job is due.  The executor runs
\* scheduled_daily_sync unless the job's instances have reached
\* max_instances; then the run is skipped with a warning.
Fire ==
    /\ sched.state = "running"
    /\ JobRegistered(sched)
    /\ IF CanSubmit(sched.instances)
       THEN LET p == IF ~Active("job1") THEN "job1" ELSE "job2" IN
              /\ ~Active(p)
              /\ exec' = [exec EXCEPT ![p] = StartExec("today")]
              /\ sched' = [sched EXCEPT !.instances = sched.instances + 1]
              /\ watch' = [watch EXCEPT !.fire_parity = ~watch.fire_parity,
                                        !.last_fire = "started"]
       ELSE /\ watch' = [watch EXCEPT !.fire_parity = ~watch.fire_parity,
                                      !.last_fire = "dropped"]
            /\ UNCHANGED <<exec, sched>>
    /\ UNCHANGED cache

\* POST /api/sync/daily?target_date=..: trigger_daily_sync awaits daily_sync
TriggerDaily ==
    /\ ~Active("daily")
    /\ \E day \in Days : exec' = [exec EXCEPT !["daily"] = StartExec(day)]
    /\ UNCHANGED <<sched, watch, cache>>

\* POST /api/sync/full: the background task run_full_sync_background
TriggerFull ==
    /\ ~Active("full")
    /\ exec' = [exec EXCEPT !["full"] = StartExec("all")]
    /\ UNCHANGED <<sched, watch, cache>>

\* the executor's bookkeeping when an instance of the job ends
Ended(p, e) ==
    IF p \in SchedSlots /\ e.pc \notin {"fetching", "returned"}
    THEN [sched EXCEPT !.instances = sched.instances - 1]
    ELSE sched

\* one page request of fetch_all_pages; a failed request leaves daily_sync /
\* full_sync with the error
SyncFetch(p) ==
    /\ exec[p].pc = "fetching"
    /\ \E resp \in UpstreamResponses(exec[p].query, exec[p].page) :
          LET e == [FetchStep(exec[p], resp) EXCEPT
                        !.page_failed = exec[p].page_failed \/ ~resp.ok]
          IN  /\ exec' = [exec EXCEPT ![p] =
                            IF e.pc = "raised"
                            THEN [e EXCEPT !.acc = <<>>, !.query = NoExec.query,
                                           !.db = EntryEnd(p, "raised").db,
                                           !.outcome = EntryEnd(p, "raised").outcome]
                            ELSE e]
              /\ sched' = Ended(p, e)
    /\ UNCHANGED <<watch, cache>>

\* sync_to_database on the fetched records, and the return of the sync
SyncMerge(p) ==
    /\ exec[p].pc = "returned"
    /\ LET res == sync_to_database(exec[p].acc, cache, now, found_rows, on_update_ts)
           pc == IF res.pc = "raised" THEN "merge_raised" ELSE "done"
           e == [NoExec EXCEPT
                    !.pc = pc,
                    !.page_failed = exec[p].page_failed, !.merged = TRUE,
                    !.db = EntryEnd(p, pc).db, !.outcome = EntryEnd(p, pc).outcome]
       IN  /\ cache' = res.rows
           /\ exec' = [exec EXCEPT ![p] = e]
           /\ sched' = Ended(p, e)
    /\ UNCHANGED watch

sysOther == <<now, found_rows, on_update_ts, call, hist, callhist, twice, fetchVars,
             calcVars>>

Next ==
    \/ Start /\ UNCHANGED sysOther
    \/ Stop /\ UNCHANGED sysOther
    \/ Fire /\ UNCHANGED sysOther
    \/ TriggerDaily /\ UNCHANGED sysOther
    \/ TriggerFull /\ UNCHANGED sysOther
    \/ \E p \in Procs : SyncFetch(p) /\ UNCHANGED sysOther
    \/ \E p \in Procs : SyncMerge(p) /\ UNCHANGED sysOther

Spec == Init /\ [][Next]_vars

(***************************************************************************)
(* Claims on Spec                                                          *)
(***************************************************************************)
InProgress(S) == {p \in S : Active(p)}

\* C2 as claimed: at most one sync execution, scheduled or manual, is in
\* progress.
C2_SingleFlight == Cardinality(InProgress(Procs)) <= 1

\* C2 amended: at most one execution of the scheduled job is in progress;
\* the manual daily and full syncs are not held back and may overlap with it
\* and with each other.
C2_ScheduledSingleFlight == Cardinality(InProgress(SchedSlots)) <= 1

\* C2 witness: the scheduled job, a manual daily sync and a manual full sync
\* in progress together
C2_Witness == InProgress(Procs) = {"job1", "daily", "full"}

\* C3: a fire that finds a scheduled execution running starts no execution,
\* and a scheduled execution starts only in the step of a fire that finds
\* none running (a dropped fire is not run later).
C3_OverlappingFireDropped ==
    [][/\ (watch'.fire_parity # watch.fire_parity /\ InProgress(SchedSlots) # {}) =>
             /\ \A p \in SchedSlots : exec'[p] = exec[p]
             /\ sched' = sched
       /\ \A p \in SchedSlots :
             (~Active(p) /\ exec'[p].pc \in {"fetching", "returned"}) =>
                 /\ watch'.fire_parity # watch.fire_parity
                 /\ InProgress(SchedSlots) = {}]_vars

\* C3 witness: the last fire was dropped while the scheduled job is running
C3_Witness ==
    /\ watch.last_fire = "dropped"
    /\ InProgress(SchedSlots) = {"job1"}
    /\ sched.instances = 1

\* C4: an execution with a failed page request ends with the error, never
\* calls sync_to_database, and the step of the failure leaves the cache as
\* it is.
C4_FailedFetchWritesNothing ==
    /\ [](\A p \in Procs :
            exec[p].page_failed => exec[p].pc = "raised" /\ ~exec[p].merged)
    /\ [][\A p \in Procs :
            (exec'[p].page_failed /\ ~exec[p].page_failed) => cache' = cache]_vars

\* C4 witness: a full sync failed on page 2, after page 1 was fetched, on a
\* cache filled by earlier runs
C4_Witness ==
    /\ exec["full"].pc = "raised"
    /\ exec["full"].page_failed
    /\ exec["full"].page = 2
    /\ cache # {}

\* C9: the cache holds at most one row per id, and no step removes an id
\* from it.
C9_OneRowPerIdNeverDeleted ==
    /\ [](\A i \in Ids : Cardinality(RowsOf(cache, i)) <= 1)
    /\ [][\A r \in cache : RowsOf(cache', r.id) # {}]_vars

\* C9 witness: a full sync, whose batch holds id b twice, has committed on a
\* cache that already held b
C9_Witness ==
    /\ exec["full"].pc = "done"
    /\ exec["daily"].pc = "done"
    /\ {r.id : r \in cache} = Ids
    /\ \E r \in RowsOf(cache, "b") : r.status = "failed"

\* C10: start() on a running scheduler and stop() on a stopped one raise
\* nothing and change nothing; is_running holds exactly when the last call
\* that changed the scheduler was start(); at most one job
\* 'daily_transaction_sync' is registered.
C10_StartStopIdempotent ==
    /\ watch.noop => ~watch.raised /\ ~watch.changed
    /\ sched.is_running <=> watch.last_change = "start"
    /\ sched.is_running <=> sched.state = "running"
    /\ Cardinality({k \in 1..Len(sched.jobs) : sched.jobs[k] = JobId}) <= 1

\* C10 witness: stop() was called on a scheduler that an earlier stop() had
\* stopped and whose store kept the job
C10_Witness ==
    /\ watch.op = "stop"
    /\ watch.noop
    /\ watch.last_change = "stop"
    /\ sched.jobs = <<JobId>>

(***************************************************************************)
(* Decimal values                                                          *)
(***************************************************************************)
\* A Decimal is kept as an exact fraction n/d in lowest terms, d > 0 (the
\* 28-digit rounding of Decimal division is not modelled); d = 0 is None
\* where a Decimal is expected.
Abs(x) == IF x < 0 THEN -x ELSE x

RECURSIVE GCD(_, _)
GCD(a, b) == IF b = 0 THEN a ELSE GCD(b, a % b)

Rat(n, d) ==
    LET g == GCD(Abs(n), Abs(d))
        sgn == IF d < 0 THEN -1 ELSE 1
    IN  [n |-> (sgn * n) \div g, d |-> (sgn * d) \div g]
Dec(k) == [n |-> k, d |-> 1]
NoDecimal == [n |-> 0, d |-> 0]
Zero == Dec(0)

RatAdd(a, b) == Rat(a.n * b.d + b.n * a.d, a.d * b.d)
RatSub(a, b) == Rat(a.n * b.d - b.n * a.d, a.d * b.d)
RatMul(a, b) == Rat(a.n * b.n, a.d * b.d)
\* a / b, b # 0
RatDiv(a, b) == Rat(a.n * b.d, a.d * b.n)
RatLt(a, b) == a.n * b.d < b.n * a.d
RatAbs(a) == [n |-> Abs(a.n), d |-> a.d]
\* `not x` is false: x is neither None nor zero
Truthy(x) == x # NoDecimal /\ x.n # 0

(***************************************************************************)
(* currency_rates.py                                                       *)
(***************************************************************************)
\* CURRENCY_RATES (1 USD = K units), five of its entries with K cut to three
\* significant digits: rates in the thousands, in the hundreds, between 1
\* and 10, and below 1
CURRENCY_RATES ==
    [c \in {"USD", "NGN", "EUR", "AED", "XAF"} |->
        CASE c = "USD" -> Dec(1)
          [] c = "NGN" -> Dec(1430)
          [] c = "EUR" -> Rat(833, 1000)
          [] c = "AED" -> Rat(367, 100)
          [] c = "XAF" -> Dec(571)]

\* the currency codes a row or a caller may carry: table currencies in
\* several letter cases, an unknown currency, an empty and a missing code
CurrencyCodes == {"USD", "usd", "Usd", "XAF", "xaf", "EUR", "AED", "ZZZ", "", None}

\* (variant: the code is compared as it is written)
Upper_AsWritten(c) == c
\* str.upper()
Upper(c) ==
    CASE c = "usd" -> "USD"
      [] c = "Usd" -> "USD"
      [] c = "xaf" -> "XAF"
      [] OTHER -> c

\* `currency_code.upper() if currency_code else "USD"`
CodeOf(currency_code) ==
    IF currency_code \in {None, ""} THEN "USD" ELSE Upper(currency_code)

get_usd_rate(currency_code) ==
    IF currency_code \in {None, ""} THEN Dec(1)
    ELSE LET code == Upper(currency_code)
         IN  IF code = "USD" THEN Dec(1)
             ELSE IF code \in DOMAIN CURRENCY_RATES
                  THEN RatDiv(Dec(1), CURRENCY_RATES[code])
                  ELSE Dec(1)

\* (variant: a deviation of exactly 50% still matches)
Matches_Inclusive(x, known_rate) ==
    ~RatLt(RatMul(known_rate, Rat(5, 10)), RatAbs(RatSub(x, known_rate)))
\* abs(x - known_rate) < known_rate * Decimal("0.5")
Matches(x, known_rate) ==
    RatLt(RatAbs(RatSub(x, known_rate)), RatMul(known_rate, Rat(5, 10)))

\* use_json_rate, for the upper-cased code of a currency other than USD
UseJsonRate(code, rate_from_json) ==
    IF Truthy(rate_from_json) /\ RatLt(Zero, rate_from_json)
    THEN IF code \in DOMAIN CURRENCY_RATES
         THEN LET known_rate == CURRENCY_RATES[code]
              IN  \/ Matches(rate_from_json, known_rate)
                  \/ Matches(RatDiv(Dec(1), rate_from_json), known_rate)
         ELSE TRUE
    ELSE FALSE

\* (variant: 10 itself is taken as units per USD)
UnitsPerUSD_AtLeast(rate_from_json) == ~RatLt(rate_from_json, Dec(10))
\* `rate_from_json > 10`: the rate is read as 1 USD = rate units
UnitsPerUSD(rate_from_json) == RatLt(Dec(10), rate_from_json)

convert_to_usd(amount, currency_code, rate_from_json) ==
    IF ~Truthy(amount) THEN Zero
    ELSE LET code == CodeOf(currency_code)
         IN  IF code = "USD" THEN amount
             ELSE IF UseJsonRate(code, rate_from_json)
                  THEN IF UnitsPerUSD(rate_from_json)
                       THEN RatDiv(amount, rate_from_json)
                       ELSE RatMul(amount, rate_from_json)
                  ELSE RatMul(amount, get_usd_rate(code))

\* history: the call reached `if use_json_rate:` with use_json_rate true
HintUsed(amount, currency_code, rate_from_json) ==
    /\ Truthy(amount)
    /\ CodeOf(currency_code) # "USD"
    /\ UseJsonRate(CodeOf(currency_code), rate_from_json)

(***************************************************************************)
(* SpecUsd: one call of convert_to_usd                                     *)
(***************************************************************************)
Amounts == {NoDecimal, Zero, Dec(-5), Rat(1, 100), Dec(100)}
\* rate hints: none, zero, negative, one matching neither test for XAF
\* (2.515), the inverse XAF rate, 1.2, the AED rate, 5, 10, 11, half the XAF
\* rate, 300 and the XAF rate
Rates ==
    {NoDecimal, Zero, Dec(-1), Rat(2515, 1000), Rat(1, 571), Rat(12, 10),
     Rat(367, 100), Dec(5), Dec(10), Dec(11), Rat(571, 2), Dec(300), Dec(571)}

\* nothing of the synchronisation is running
SyncIdle ==
    /\ FetchIdle
    /\ twice = NoTwice
    /\ cache = {}
    /\ now = 1
    /\ found_rows = FALSE
    /\ on_update_ts = FALSE
    /\ call = Idle
    /\ hist = [i \in Ids |-> NoHist]
    /\ callhist = [h |-> [i \in Ids |-> NoHist], errors |-> 0, ids |-> {}, passed |-> 0]
syncVars == <<mergeVars, twice, fetchVars, sysVars>>

InitUsd ==
    /\ SyncIdle
    /\ LateIdle
    /\ wow = NoWow
    /\ txns = {}
    /\ agg = NoAgg
    /\ \E a \in Amounts, c \in CurrencyCodes, r \in Rates :
          conv = [pc |-> "called", amount |-> a, currency |-> c, rate |-> r,
                  result |-> NoDecimal, used |-> FALSE]

Convert ==
    /\ conv.pc = "called"
    /\ conv' = [conv EXCEPT
            !.pc = "returned",
            !.result = convert_to_usd(conv.amount, conv.currency, conv.rate),
            !.used = HintUsed(conv.amount, conv.currency, conv.rate)]
    /\ UNCHANGED <<syncVars, wow, txns, agg, lateVars>>

NextUsd == Convert

SpecUsd == InitUsd /\ [][NextUsd]_vars

\* C11 as claimed: convert_to_usd returns 0 for every amount that is absent,
\* zero or negative, whatever the currency and the rate hint.
C11_NonPositiveIsZero ==
    (conv.pc = "returned" /\ (conv.amount = NoDecimal \/ ~RatLt(Zero, conv.amount))) =>
        conv.result = Zero

\* what the code does for C11: 0 for an absent or zero amount only
C11_AbsentOrZeroIsZero ==
    (conv.pc = "returned" /\ (conv.amount = NoDecimal \/ conv.amount = Zero)) =>
        conv.result = Zero

\* C12: for currency USD in any letter case and a positive amount,
\* convert_to_usd returns the amount unchanged, whatever the rate hint.
C12_UsdUnchanged ==
    (/\ conv.pc = "returned"
     /\ conv.currency \in {"USD", "usd", "Usd"}
     /\ RatLt(Zero, conv.amount)) =>
        conv.result = conv.amount /\ ~conv.used

\* C12 witness: 100 'usd' with the hint 1.2, which EUR would trust
C12_Witness ==
    /\ conv.pc = "returned"
    /\ conv.currency = "usd"
    /\ conv.rate = Rat(12, 10)
    /\ conv.amount = Dec(100)
    /\ conv.result = Dec(100)

\* the two tests of a hint h against the table rate K, written out
PassesTests(h, K) ==
    /\ h # NoDecimal
    /\ h.n > 0
    /\ \/ 2 * Abs(h.n * K.d - K.n * h.d) * K.d < K.n * (h.d * K.d)
       \/ 2 * Abs(h.d * K.d - K.n * h.n) * K.d < K.n * (h.n * K.d)

\* C13: for a table currency with rate K (other than USD, which returns
\* before any hint is looked at) and a positive amount, the hint is used if
\* and only if it is positive and |hint - K| < 0.5 K or |1/hint - K| < 0.5 K;
\* otherwise the result is amount / K.
C13_HintUsedIffPlausible ==
    (/\ conv.pc = "returned"
     /\ conv.currency \in {"XAF", "xaf", "EUR"}
     /\ RatLt(Zero, conv.amount)) =>
        LET K == CURRENCY_RATES[IF conv.currency = "EUR" THEN "EUR" ELSE "XAF"]
            pass == PassesTests(conv.rate, K)
        IN  /\ conv.used <=> pass
            /\ ~pass => conv.result = Rat(conv.amount.n * K.d, conv.amount.d * K.n)

\* C13 witness: 100 XAF with the hint 2.515 came out as 100 / 571
C13_Witness ==
    /\ conv.pc = "returned"
    /\ conv.currency = "XAF"
    /\ conv.rate = Rat(2515, 1000)
    /\ conv.amount = Dec(100)
    /\ ~conv.used
    /\ conv.result = Rat(100, 571)

\* C14: a used hint gives amount / hint if hint > 10 and amount * hint
\* otherwise; a positive hint on a currency that is not in the table is
\* always used; a currency that is not in the table with no usable hint
\* gives the amount itself.
C14_HintDirection ==
    (conv.pc = "returned" /\ conv.amount # NoDecimal) =>
        LET h == conv.rate
            a == conv.amount
            directed == IF h.n > 10 * h.d
                        THEN Rat(a.n * h.d, a.d * h.n)
                        ELSE Rat(a.n * h.n, a.d * h.d)
            usable == h # NoDecimal /\ h.n > 0
        IN  /\ conv.used => conv.result = directed
            /\ (conv.currency = "ZZZ" /\ usable) =>
                  /\ conv.result = directed
                  /\ a # Zero => conv.used
            /\ (conv.currency = "ZZZ" /\ ~usable) => conv.result = a

\* C14 witness: 100 ZZZ with the hint 5 came out as 500
C14_Witness ==
    /\ conv.pc = "returned"
    /\ conv.currency = "ZZZ"
    /\ conv.rate = Dec(5)
    /\ conv.amount = Dec(100)
    /\ conv.used
    /\ conv.result = Dec(500)

(***************************************************************************)
(* reports.py: calculate_week_over_week_changes                            *)
(***************************************************************************)
\* round(x, 2) and format_percentage: two decimals, a tie to the even digit
\* (floats are kept as exact fractions; their binary rounding is not
\* modelled)
Round2(x) ==
    LET f == (x.n * 100) \div x.d
        r == (x.n * 100) % x.d
    IN  IF 2 * r > x.d \/ (2 * r = x.d /\ f % 2 = 1)
        THEN Rat(f + 1, 100)
        ELSE Rat(f, 100)

\* (variant: no base, no change)
calculate_change_ZeroWithoutBase(current_val, previous_val) ==
    IF previous_val = Zero THEN Zero
    ELSE RatMul(RatDiv(RatSub(current_val, previous_val), previous_val), Dec(100))
calculate_change(current_val, previous_val) ==
    IF previous_val = Zero
    THEN IF RatLt(Zero, current_val) THEN Dec(100) ELSE Zero
    ELSE RatMul(RatDiv(RatSub(current_val, previous_val), previous_val), Dec(100))

calculate_week_over_week_changes(current, previous) ==
    [transaction_volume_change_pct |->
        Round2(calculate_change(Dec(current.total_transactions),
                                Dec(previous.total_transactions))),
     transaction_volume_change_absolute |->
        current.total_transactions - previous.total_transactions,
     success_rate_change_pct |->
        Round2(RatSub(current.success_rate, previous.success_rate)),
     revenue_change_pct |->
        Round2(calculate_change(current.total_revenue_usd, previous.total_revenue_usd)),
     revenue_change_absolute_usd |->
        RatSub(current.total_revenue_usd, previous.total_revenue_usd),
     avg_transaction_size_change_pct |->
        Round2(calculate_change(current.avg_transaction_size_usd,
                                previous.avg_transaction_size_usd))]

\* the metrics of a week, the keys calculate_week_over_week_changes reads
WeekMetrics ==
    [total_transactions : 0..MaxCount,
     success_rate : {Zero, Rat(3333, 100), Dec(100)},
     total_revenue_usd : {Zero, Rat(3, 2), Dec(3), Dec(-1)},
     avg_transaction_size_usd : {Zero, Dec(10), Dec(15)}]

NoChanges ==
    [transaction_volume_change_pct |-> Zero, transaction_volume_change_absolute |-> 0,
     success_rate_change_pct |-> Zero, revenue_change_pct |-> Zero,
     revenue_change_absolute_usd |-> Zero, avg_transaction_size_change_pct |-> Zero]

InitWow ==
    /\ SyncIdle
    /\ LateIdle
    /\ conv = NoConv
    /\ txns = {}
    /\ agg = NoAgg
    /\ \E c \in WeekMetrics, p \in WeekMetrics :
          wow = [pc |-> "called", current |-> c, previous |-> p, changes |-> NoChanges]

WeekOverWeek ==
    /\ wow.pc = "called"
    /\ wow' = [wow EXCEPT
            !.pc = "returned",
            !.changes = calculate_week_over_week_changes(wow.current, wow.previous)]
    /\ UNCHANGED <<syncVars, conv, txns, agg, lateVars>>

NextWow == WeekOverWeek

SpecWow == InitWow /\ [][NextWow]_vars

\* the percentage change of C18 from c to p, as a fraction rounded like the
\* code's outputs
PctChange(c, p) ==
    IF p.n = 0
    THEN IF c.n > 0 THEN Dec(100) ELSE Zero
    ELSE Round2(Rat((c.n * p.d - p.n * c.d) * 100 * p.d, c.d * p.d * p.n))

\* C18: the week-over-week change of transaction count, revenue and average
\* transaction size is 100 when previous = 0 and current > 0, 0 when both are
\* 0, and (current - previous) / previous * 100 otherwise (to two decimals);
\* the success-rate change is the difference of the two rates.
C18_WeekOverWeekChange ==
    wow.pc = "returned" =>
        LET c == wow.current
            p == wow.previous
            ch == wow.changes
            known(cur, prev) == prev.n # 0 \/ cur.n >= 0
        IN  /\ ch.transaction_volume_change_pct =
                   PctChange(Dec(c.total_transactions), Dec(p.total_transactions))
            /\ known(c.total_revenue_usd, p.total_revenue_usd) =>
                   ch.revenue_change_pct =
                       PctChange(c.total_revenue_usd, p.total_revenue_usd)
            /\ ch.avg_transaction_size_change_pct =
                   PctChange(c.avg_transaction_size_usd, p.avg_transaction_size_usd)
            /\ ch.success_rate_change_pct =
                   Round2(Rat(c.success_rate.n * p.success_rate.d
                                  - p.success_rate.n * c.success_rate.d,
                              c.success_rate.d * p.success_rate.d))

\* C18 witness: a week with transactions and revenue after a week with none,
\* and a success rate that went from 100 to 33.33
C18_Witness ==
    /\ wow.pc = "returned"
    /\ wow.previous.total_transactions = 0
    /\ wow.current.total_transactions = 2
    /\ wow.previous.total_revenue_usd = Zero
    /\ wow.current.total_revenue_usd = Dec(3)
    /\ wow.changes.transaction_volume_change_pct = Dec(100)
    /\ wow.changes.revenue_change_pct = Dec(100)
    /\ wow.previous.success_rate = Dec(100)
    /\ wow.current.success_rate = Rat(3333, 100)
    /\ wow.changes.success_rate_change_pct = Rat(-6667, 100)
    /\ wow.previous.avg_transaction_size_usd = Dec(10)
    /\ wow.current.avg_transaction_size_usd = Dec(15)
    /\ wow.changes.avg_transaction_size_change_pct = Dec(50)

(***************************************************************************)
(* formatters.py                                                           *)
(***************************************************************************)
\* a str is kept as the sequence of its characters
DigitChars == <<"0", "1", "2", "3", "4", "5", "6", "7", "8", "9">>

RECURSIVE Digits(_)
Digits(k) ==
    IF k < 10 THEN <<DigitChars[k + 1]>>
    ELSE Digits(k \div 10) \o <<DigitChars[(k % 10) + 1]>>

\* the last w digits of k, zero-padded
RECURSIVE Padded(_, _)
Padded(k, w) ==
    IF w = 0 THEN <<>> ELSE Padded(k \div 10, w - 1) \o <<DigitChars[(k % 10) + 1]>>

\* the `,` of the format spec: thousands separators
RECURSIVE Grouped(_)
Grouped(k) ==
    IF k < 1000 THEN Digits(k)
    ELSE Grouped(k \div 1000) \o <<",">> \o Padded(k % 1000, 3)

\* round_decimal(value, 2): quantize to 0.01 with ROUND_HALF_UP (ties away
\* from zero); the Decimal returned is kept as its sign and its cents
round_decimal(value) ==
    IF value = NoDecimal THEN [neg |-> FALSE, cents |-> 0]
    ELSE [neg |-> value.n < 0,
          cents |-> (2 * Abs(value.n) * 100 + value.d) \div (2 * value.d)]

\* f"{rounded:,.2f}"
format_currency(value) ==
    LET rounded == round_decimal(value)
    IN  (IF rounded.neg THEN <<"-">> ELSE <<>>)
            \o Grouped(rounded.cents \div 100) \o <<".">> \o Padded(rounded.cents % 100, 2)

format_percentage(value) == Round2(value)

\* the code point of a character of a formatted amount
Ord(ch) ==
    CASE ch = "," -> 44
      [] ch = "-" -> 45
      [] ch = "." -> 46
      [] OTHER -> 47 + (CHOOSE k \in 1..10 : DigitChars[k] = ch)

\* a < b for two str: by code point, a proper prefix first
RECURSIVE StrLess(_, _)
StrLess(a, b) ==
    IF b = <<>> THEN FALSE
    ELSE IF a = <<>> THEN TRUE
    ELSE IF Ord(Head(a)) # Ord(Head(b)) THEN Ord(Head(a)) < Ord(Head(b))
    ELSE StrLess(Tail(a), Tail(b))

(***************************************************************************)
(* main.py: calculate_period_stats                                         *)
(***************************************************************************)
Instants == 1..MaxInstant
\* func.date(created_at): the calendar day of an instant
DateOf(t) == (t + 1) \div 2

\* a row of transaction_cache, the columns the aggregations read; rate is
\* recipient['rate'], NoDecimal when there is none
Row(i, s, t, a, ch, c, r) ==
    [id |-> i, status |-> s, created_at |-> t, amount |-> a, charge |-> ch,
     currency |-> c, rate |-> r]

RowPool ==
    {Row(1, "success", 1, Dec(150), Rat(3, 2), "NGN", NoDecimal),
     Row(2, "success", 3, Dec(150), Rat(3, 2), "NGN", NoDecimal),
     Row(3, "success", 2, Dec(10), Dec(1), "USD", NoDecimal),
     Row(4, "success", 2, Dec(9), Zero, "ZZZ", NoDecimal),
     Row(5, "failed", 2, Dec(100), Dec(1), "USD", NoDecimal),
     Row(6, "declined", 3, Dec(100), Dec(1), "USD", NoDecimal),
     Row(7, "reversed", 4, Dec(100), Dec(1), "USD", NoDecimal),
     Row(8, "pending", 1, Dec(100), Dec(1), "USD", NoDecimal),
     Row(9, "processing_swap", 2, Dec(100), Dec(1), "USD", NoDecimal),
     Row(10, "refunded", 3, Dec(100), Dec(1), "USD", NoDecimal),
     Row(11, "success", NoTime, Dec(100), Dec(1), "USD", NoDecimal),
     Row(12, "success", 4, Dec(571), NoDecimal, "XAF", Dec(571)),
     Row(13, None, 2, Dec(100), Dec(1), "USD", NoDecimal)}

\* (variant: the end_dt of the window is exclusive)
InWindow_EndExclusive(r, start_dt, end_dt) ==
    r.created_at # NoTime /\ r.created_at >= start_dt /\ r.created_at < end_dt
\* created_at >= start AND created_at <= end; NULL compares to nothing
InWindow(r, start_dt, end_dt) ==
    r.created_at # NoTime /\ r.created_at >= start_dt /\ r.created_at <= end_dt

\* `x or Decimal(0)`, `txn.currency or "USD"`, the rate of the recipient JSON
OrZero(x) == IF Truthy(x) THEN x ELSE Zero
OrUSD(c) == IF c \in {None, ""} THEN "USD" ELSE c
VolumeUsd(r) == convert_to_usd(OrZero(r.amount), OrUSD(r.currency), r.rate)
RevenueUsd(r) == convert_to_usd(OrZero(r.charge), OrUSD(r.currency), r.rate)

\* the sum of f over the rows S
RECURSIVE SumOver(_, _)
SumOver(S, f) ==
    IF S = {} THEN Zero
    ELSE LET r == CHOOSE r \in S : TRUE
         IN  RatAdd(f[r], SumOver(S \ {r}, f))

\* a division by zero
ZeroDivisionError == [n |-> 1, d |-> 0]

\* (variant: the average is taken without looking at the count)
Average_Unguarded(total, count) ==
    IF count = 0 THEN ZeroDivisionError ELSE RatDiv(total, Dec(count))
\* `total / success_count if success_count > 0 else Decimal(0)`
Average(total, count) == IF count > 0 THEN RatDiv(total, Dec(count)) ELSE Zero

\* (variant: pending counts as an error)
IsError_AlsoPending(status) == status \in {"failed", "declined", "reversed", "pending"}
\* the statuses of error_count
IsError(status) == status \in {"failed", "declined", "reversed"}

\* `(error_count / total_transactions * 100) if total_transactions > 0 else 0.0`
ErrorRate(error_count, total_transactions) ==
    IF total_transactions > 0
    THEN RatMul(Rat(error_count, total_transactions), Dec(100))
    ELSE Zero

Raised == [raised |-> TRUE]

calculate_period_stats(rows, start_dt, end_dt) ==
    LET base_query == {r \in rows : InWindow(r, start_dt, end_dt)}
        success_query == {r \in base_query : r.status = "success"}
        total_transactions == Cardinality(base_query)
        success_count == Cardinality(success_query)
        total_volume_usd == SumOver(success_query, [r \in success_query |-> VolumeUsd(r)])
        total_revenue_usd == SumOver(success_query, [r \in success_query |-> RevenueUsd(r)])
        avg_amount == Average(total_volume_usd, success_count)
        avg_revenue == Average(total_revenue_usd, success_count)
        error_count == Cardinality({r \in base_query : IsError(r.status)})
        error_rate == ErrorRate(error_count, total_transactions)
    IN  IF ZeroDivisionError \in {avg_amount, avg_revenue, error_rate}
        THEN Raised
        ELSE [raised |-> FALSE,
              total_transactions |-> success_count,
              total_volume |-> format_currency(total_volume_usd),
              total_revenue |-> format_currency(total_revenue_usd),
              avg_transaction_amount |-> format_currency(avg_amount),
              avg_revenue_per_transaction |-> format_currency(avg_revenue),
              error_rate |-> format_percentage(error_rate)]

(***************************************************************************)
(* reports.py: calculate_week_metrics; main.py: get_currency_breakdown,    *)
(* get_daily_transaction_trend                                             *)
(***************************************************************************)
\* a list without its last entry, and its last entry
Front(q) == SubSeq(q, 1, Len(q) - 1)
Last(q) == q[Len(q)]

\* query.all(): the rows in primary-key order
RECURSIVE Ordered(_)
Ordered(S) ==
    IF S = {} THEN <<>>
    ELSE LET r == CHOOSE r \in S : \A o \in S : r.id <= o.id
         IN  <<r>> \o Ordered(S \ {r})

\* the keys of a dict filled from the rows in order: each currency once, in
\* the order of its first row (the code as written on the row, not
\* upper-cased)
RECURSIVE Keys(_)
Keys(rows) ==
    IF rows = <<>> THEN <<>>
    ELSE LET before == Keys(Front(rows))
             c == OrUSD(Last(rows).currency)
         IN  IF \E k \in 1..Len(before) : before[k] = c THEN before ELSE Append(before, c)

\* a < b for two sort keys: str keys by code point, Decimal keys by value
KeyLess(mode, a, b) == IF mode = "str" THEN StrLess(a, b) ELSE RatLt(a, b)

\* list.sort(key=.., reverse=True) is stable: x goes behind every entry
\* whose key is not less than its own
RECURSIVE Insert(_, _, _)
Insert(sorted, x, mode) ==
    IF sorted = <<>> THEN <<x>>
    ELSE IF KeyLess(mode, Head(sorted).key, x.key) THEN <<x>> \o sorted
    ELSE <<Head(sorted)>> \o Insert(Tail(sorted), x, mode)

RECURSIVE SortReverse(_, _)
SortReverse(entries, mode) ==
    IF entries = <<>> THEN <<>>
    ELSE Insert(SortReverse(Front(entries), mode), Last(entries), mode)

\* value if the guard holds, else zero: `x / y * 100 if y > 0 else 0`
Percent(part, whole) ==
    IF whole > 0 THEN RatMul(Rat(part, whole), Dec(100)) ELSE Zero
Share(part, whole) ==
    IF RatLt(Zero, whole) THEN RatMul(RatDiv(part, whole), Dec(100)) ELSE Zero

\* (variant: a row without a status is counted in no bucket)
Bucket_NullUncounted(status) ==
    IF status \in {"success", "failed", "pending", "declined", "reversed",
                   "processing_swap"}
    THEN status
    ELSE IF status = None THEN "none" ELSE "other"
\* the if / elif chain on txn.status: the counter a row adds one to
Bucket(status) ==
    IF status \in {"success", "failed", "pending", "declined", "reversed",
                   "processing_swap"}
    THEN status
    ELSE "other"

calculate_week_metrics(rows, start_dt, end_dt) ==
    LET all_transactions == {r \in rows : InWindow(r, start_dt, end_dt)}
        total_transactions == Cardinality(all_transactions)
        count(st) == Cardinality({r \in all_transactions : Bucket(r.status) = st})
        successes == {r \in all_transactions : r.status = "success"}
        success_count == count("success")
        total_volume_usd == SumOver(successes, [r \in successes |-> VolumeUsd(r)])
        total_revenue_usd == SumOver(successes, [r \in successes |-> RevenueUsd(r)])
        keys == Keys(Ordered(successes))
        of(c) == {r \in successes : OrUSD(r.currency) = c}
        vol(c) == SumOver(of(c), [r \in of(c) |-> VolumeUsd(r)])
        currency_breakdown_list ==
            [k \in 1..Len(keys) |->
                [key |-> vol(keys[k]),
                 currency |-> keys[k],
                 transaction_count |-> Cardinality(of(keys[k])),
                 volume_usd |-> vol(keys[k]),
                 percentage |-> Share(vol(keys[k]), total_volume_usd)]]
        sorted == SortReverse(currency_breakdown_list, "Decimal")
    IN  [raised |-> FALSE,
         total_transactions |-> total_transactions,
         success_count |-> success_count,
         failed_count |-> count("failed"),
         pending_count |-> count("pending"),
         declined_count |-> count("declined"),
         reversed_count |-> count("reversed"),
         processing_swap_count |-> count("processing_swap"),
         other_count |-> count("other"),
         success_percentage |-> Round2(Percent(success_count, total_transactions)),
         failed_percentage |-> Round2(Percent(count("failed"), total_transactions)),
         pending_percentage |-> Round2(Percent(count("pending"), total_transactions)),
         declined_percentage |-> Round2(Percent(count("declined"), total_transactions)),
         success_rate |-> Round2(Percent(success_count, total_transactions)),
         total_volume_usd |-> total_volume_usd,
         avg_transaction_size_usd |->
            (IF success_count > 0 THEN RatDiv(total_volume_usd, Dec(success_count)) ELSE Zero),
         total_revenue_usd |-> total_revenue_usd,
         avg_fee_per_transaction_usd |->
            (IF success_count > 0 THEN RatDiv(total_revenue_usd, Dec(success_count)) ELSE Zero),
         fees_to_value_ratio |-> Share(total_revenue_usd, total_volume_usd),
         currency_breakdown |-> SubSeq(sorted, 1, IF Len(sorted) < 5 THEN Len(sorted) ELSE 5)]

\* get_currency_breakdown for a window; status None selects success
get_currency_breakdown(rows, status, start_dt, end_dt) ==
    LET wanted == IF status # None THEN status ELSE "success"
        transactions == {r \in rows : r.status = wanted /\ InWindow(r, start_dt, end_dt)}
        total_volume_usd_all == SumOver(transactions, [r \in transactions |-> VolumeUsd(r)])
        keys == Keys(Ordered(transactions))
        of(c) == {r \in transactions : OrUSD(r.currency) = c}
        total_volume(c) == SumOver(of(c), [r \in of(c) |-> OrZero(r.amount)])
        total_volume_usd(c) == SumOver(of(c), [r \in of(c) |-> VolumeUsd(r)])
        result ==
            [k \in 1..Len(keys) |->
                [key |-> format_currency(total_volume_usd(keys[k])),
                 currency |-> keys[k],
                 transaction_count |-> Cardinality(of(keys[k])),
                 total_volume |-> format_currency(total_volume(keys[k])),
                 total_volume_usd |-> format_currency(total_volume_usd(keys[k])),
                 avg_transaction_size |->
                    format_currency(RatDiv(total_volume(keys[k]),
                                           Dec(Cardinality(of(keys[k]))))),
                 percentage_of_total |->
                    format_percentage(Share(total_volume_usd(keys[k]), total_volume_usd_all))]]
    IN  SortReverse(result, "str")

\* HTTPException(status_code=400) of the date range validation
BadRequest == [raised |-> TRUE, status_code |-> 400]

\* the calendar days of a set of rows, ascending
DaysOf(S) ==
    SelectSeq([d \in 1..DateOf(MaxInstant) |-> d],
              LAMBDA d : \E r \in S : DateOf(r.created_at) = d)

get_daily_transaction_trend(rows, start_dt, end_dt) ==
    IF start_dt > end_dt THEN BadRequest
    ELSE
    LET counted == {r \in rows : InWindow(r, start_dt, end_dt)}
        days == DaysOf(counted)
        on(d) == {r \in counted : DateOf(r.created_at) = d}
        ok(d) == {r \in on(d) : r.status = "success"}
        volume(d) == SumOver(ok(d), [r \in ok(d) |-> VolumeUsd(r)])
        revenue(d) == SumOver(ok(d), [r \in ok(d) |-> RevenueUsd(r)])
        daily_data ==
            [k \in 1..Len(days) |->
                [date |-> days[k],
                 transaction_count |-> Cardinality(on(days[k])),
                 success_count |-> Cardinality(ok(days[k])),
                 failed_count |-> Cardinality({r \in on(days[k]) :
                                     r.status \in {"failed", "declined", "reversed"}}),
                 pending_count |-> Cardinality({r \in on(days[k]) : r.status = "pending"}),
                 total_volume_usd |-> format_currency(volume(days[k])),
                 total_revenue_usd |-> format_currency(revenue(days[k])),
                 avg_transaction_size_usd |->
                    format_currency(IF Cardinality(ok(days[k])) > 0
                                    THEN RatDiv(volume(days[k]), Dec(Cardinality(ok(days[k]))))
                                    ELSE Zero),
                 success_rate |->
                    Round2(Percent(Cardinality(ok(days[k])), Cardinality(on(days[k]))))]]
        successes == {r \in counted : r.status = "success"}
        total_transactions == Cardinality(counted)
        total_success == Cardinality(successes)
        total_volume_usd == SumOver(successes, [r \in successes |-> VolumeUsd(r)])
        total_revenue_usd == SumOver(successes, [r \in successes |-> RevenueUsd(r)])
        total_days == Len(days)
    IN  [raised |-> FALSE,
         total_days |-> total_days,
         daily_data |-> daily_data,
         summary |->
            [total_transactions |-> total_transactions,
             total_success |-> total_success,
             overall_success_rate |-> Round2(Percent(total_success, total_transactions)),
             total_volume_usd |-> format_currency(total_volume_usd),
             total_revenue_usd |-> format_currency(total_revenue_usd),
             avg_daily_transactions |->
                Round2(IF total_days > 0 THEN Rat(total_transactions, total_days) ELSE Zero),
             avg_daily_volume_usd |->
                format_currency(IF total_days > 0
                                THEN RatDiv(total_volume_usd, Dec(total_days)) ELSE Zero),
             avg_transaction_size_usd |->
                format_currency(IF total_success > 0
                                THEN RatDiv(total_volume_usd, Dec(total_success)) ELSE Zero)]]

(***************************************************************************)
(* SpecAgg: the aggregations over a table of at most MaxRows rows          *)
(***************************************************************************)
InitAgg ==
    /\ SyncIdle
    /\ LateIdle
    /\ conv = NoConv
    /\ wow = NoWow
    /\ agg = NoAgg
    /\ txns \in {S \in SUBSET RowPool : Cardinality(S) <= MaxRows}

Returned(op, start_dt, end_dt, out) ==
    [pc |-> "returned", op |-> op, start_dt |-> start_dt, end_dt |-> end_dt, out |-> out]

PeriodStats ==
    /\ agg.pc = "idle"
    /\ \E start_dt \in Instants, end_dt \in Instants :
          agg' = Returned("period_stats", start_dt, end_dt,
                          calculate_period_stats(txns, start_dt, end_dt))
    /\ UNCHANGED <<syncVars, conv, wow, txns, lateVars>>

WeekMetricsCall ==
    /\ agg.pc = "idle"
    /\ \E start_dt \in Instants, end_dt \in Instants :
          agg' = Returned("week_metrics", start_dt, end_dt,
                          calculate_week_metrics(txns, start_dt, end_dt))
    /\ UNCHANGED <<syncVars, conv, wow, txns, lateVars>>

CurrencyBreakdown ==
    /\ agg.pc = "idle"
    /\ \E start_dt \in Instants, end_dt \in Instants :
          agg' = Returned("currency_breakdown", start_dt, end_dt,
                          get_currency_breakdown(txns, None, start_dt, end_dt))
    /\ UNCHANGED <<syncVars, conv, wow, txns, lateVars>>

DailyTrend ==
    /\ agg.pc = "idle"
    /\ \E start_dt \in Instants, end_dt \in Instants :
          agg' = Returned("daily_trend", start_dt, end_dt,
                          get_daily_transaction_trend(txns, start_dt, end_dt))
    /\ UNCHANGED <<syncVars, conv, wow, txns, lateVars>>

NextAgg ==
    \/ PeriodStats
    \/ WeekMetricsCall
    \/ CurrencyBreakdown
    \/ DailyTrend

SpecAgg == InitAgg /\ [][NextAgg]_vars

\* the rows of the window of the last call, and its success rows
Window == {r \in txns : r.created_at \in agg.start_dt..agg.end_dt}
Successes == {r \in Window : r.status = "success"}
ZeroMoney == <<"0", ".", "0", "0">>

\* C15: periodStats counts and sums exactly the success rows whose created_at
\* lies in [start, end], both bounds included: the count is their number,
\* volume and revenue are their USD sums, the averages are the sums over the
\* count; no other row (other status, outside the window, NULL created_at)
\* enters any of them.
C15_SuccessRowsInWindowOnly ==
    (agg.pc = "returned" /\ agg.op = "period_stats") =>
        LET n == Cardinality(Successes)
            volume == SumOver(Successes, [r \in Successes |-> VolumeUsd(r)])
            revenue == SumOver(Successes, [r \in Successes |-> RevenueUsd(r)])
        IN  /\ ~agg.out.raised
            /\ agg.out.total_transactions = n
            /\ agg.out.total_volume = format_currency(volume)
            /\ agg.out.total_revenue = format_currency(revenue)
            /\ agg.out.avg_transaction_amount =
                  (IF n = 0 THEN ZeroMoney ELSE format_currency(Rat(volume.n, volume.d * n)))
            /\ agg.out.avg_revenue_per_transaction =
                  (IF n = 0 THEN ZeroMoney ELSE format_currency(Rat(revenue.n, revenue.d * n)))

\* C15 witness: of a success row at the end of the window, a failed row in
\* the window and a success row with NULL created_at, only the first counted
C15_Witness ==
    /\ agg.pc = "returned"
    /\ agg.op = "period_stats"
    /\ agg.start_dt = 1
    /\ agg.end_dt = 2
    /\ {r.id : r \in txns} = {3, 5, 11}
    /\ agg.out.total_transactions = 1
    /\ agg.out.total_volume = <<"1", "0", ".", "0", "0">>
    /\ agg.out.total_revenue = <<"1", ".", "0", "0">>

\* C16: the error rate of periodStats is the number of failed, declined and
\* reversed rows of the window over the number of all rows of the window,
\* times 100 (to two decimals); 0 for an empty window.
C16_ErrorRate ==
    (agg.pc = "returned" /\ agg.op = "period_stats") =>
        LET errors == {r \in Window : r.status \in {"failed", "declined", "reversed"}}
        IN  /\ ~agg.out.raised
            /\ agg.out.error_rate =
                  (IF Window = {} THEN Zero
                   ELSE Round2(Rat(100 * Cardinality(errors), Cardinality(Window))))

\* C16 witness: one failed, one pending and one success row give 33.33
C16_Witness ==
    /\ agg.pc = "returned"
    /\ agg.op = "period_stats"
    /\ {r.status : r \in Window} = {"failed", "pending", "success"}
    /\ Cardinality(Window) = 3
    /\ agg.out.error_rate = Rat(3333, 100)

\* C17: periodStats over a window without success rows returns without
\* raising, with count 0 and volume, revenue and both averages 0.00; over a
\* window without any row its error rate is 0 too; calculate_week_metrics
\* over a window without rows returns zeros without raising.
C17_EmptyWindowAllZero ==
    /\ (agg.pc = "returned" /\ agg.op = "period_stats" /\ Successes = {}) =>
          /\ ~agg.out.raised
          /\ agg.out.total_transactions = 0
          /\ agg.out.total_volume = ZeroMoney
          /\ agg.out.total_revenue = ZeroMoney
          /\ agg.out.avg_transaction_amount = ZeroMoney
          /\ agg.out.avg_revenue_per_transaction = ZeroMoney
          /\ Window = {} => agg.out.error_rate = Zero
    /\ (agg.pc = "returned" /\ agg.op = "week_metrics" /\ Window = {}) =>
          /\ ~agg.out.raised
          /\ agg.out.total_transactions = 0
          /\ agg.out.success_rate = Zero
          /\ agg.out.total_volume_usd = Zero
          /\ agg.out.avg_transaction_size_usd = Zero
          /\ agg.out.avg_fee_per_transaction_usd = Zero
          /\ agg.out.fees_to_value_ratio = Zero
          /\ agg.out.currency_breakdown = <<>>

\* C17 witness: a window that holds rows, none of them success
C17_Witness ==
    /\ agg.pc = "returned"
    /\ agg.op = "period_stats"
    /\ Window # {}
    /\ Successes = {}
    /\ ~agg.out.raised
    /\ agg.out.total_volume = ZeroMoney
    /\ agg.out.avg_transaction_amount = ZeroMoney
    /\ agg.out.error_rate = Dec(100)

\* the amount a formatted string stands for, in cents
RECURSIVE DigitsValue(_)
DigitsValue(str) ==
    IF str = <<>> THEN 0
    ELSE IF Last(str) \in {",", ".", "-"} THEN DigitsValue(Front(str))
    ELSE DigitsValue(Front(str)) * 10 + (Ord(Last(str)) - 48)
ParseMoney(str) ==
    IF str # <<>> /\ Head(str) = "-" THEN -DigitsValue(str) ELSE DigitsValue(str)

RECURSIVE SumSeq(_)
SumSeq(q) == IF q = <<>> THEN 0 ELSE SumSeq(Front(q)) + Last(q)

\* C19 as claimed: the summary of the daily trend has, as returned, the sum
\* of the returned per-day USD volumes as its total USD volume, and the sums
\* of the per-day counts as its total transactions and total success.
C19_SummaryIsSumOfDays ==
    (agg.pc = "returned" /\ agg.op = "daily_trend" /\ ~agg.out.raised) =>
        LET days == agg.out.daily_data
            sum == agg.out.summary
        IN  /\ ParseMoney(sum.total_volume_usd) =
                  SumSeq([k \in 1..Len(days) |-> ParseMoney(days[k].total_volume_usd)])
            /\ sum.total_transactions =
                  SumSeq([k \in 1..Len(days) |-> days[k].transaction_count])
            /\ sum.total_success =
                  SumSeq([k \in 1..Len(days) |-> days[k].success_count])

\* what the code does for C19: the counts add up, and the total volume is the
\* exact sum of the window rounded once
C19_CountsAddUp ==
    (agg.pc = "returned" /\ agg.op = "daily_trend" /\ ~agg.out.raised) =>
        LET days == agg.out.daily_data
            sum == agg.out.summary
        IN  /\ sum.total_volume_usd =
                  format_currency(SumOver(Successes, [r \in Successes |-> VolumeUsd(r)]))
            /\ sum.total_transactions =
                  SumSeq([k \in 1..Len(days) |-> days[k].transaction_count])
            /\ sum.total_success =
                  SumSeq([k \in 1..Len(days) |-> days[k].success_count])

\* C20 as claimed: the currency breakdown lists the currencies by descending
\* numeric total USD volume, and the weekly report's list is in that order
\* and at most five long.
C20_DescendingByUsdVolume ==
    /\ (agg.pc = "returned" /\ agg.op = "currency_breakdown") =>
          \A i \in 1..Len(agg.out) : \A j \in 1..Len(agg.out) :
              i < j => ParseMoney(agg.out[i].total_volume_usd)
                           >= ParseMoney(agg.out[j].total_volume_usd)
    /\ (agg.pc = "returned" /\ agg.op = "week_metrics") =>
          LET list == agg.out.currency_breakdown
          IN  /\ Len(list) <= 5
              /\ \A i \in 1..Len(list) : \A j \in 1..Len(list) :
                    i < j => ~RatLt(list[i].volume_usd, list[j].volume_usd)

\* what the code does for C20: the weekly list is in numeric order, the
\* breakdown in the order of the formatted strings
C20_WeeklyNumericBreakdownByString ==
    /\ (agg.pc = "returned" /\ agg.op = "currency_breakdown") =>
          \A i \in 1..Len(agg.out) : \A j \in 1..Len(agg.out) :
              i < j => ~StrLess(agg.out[i].total_volume_usd, agg.out[j].total_volume_usd)
    /\ (agg.pc = "returned" /\ agg.op = "week_metrics") =>
          LET list == agg.out.currency_breakdown
          IN  \A i \in 1..Len(list) : \A j \in 1..Len(list) :
                  i < j => ~RatLt(list[i].volume_usd, list[j].volume_usd)


(***************************************************************************)
(* Claims on SpecMerge: the counts sync_to_database returns                *)
(***************************************************************************)
\* C28: sync_to_database returns total = the number of records passed in,
\* skipped records included, so inserted + updated <= total for every batch,
\* and inserted + updated < total when at least one record was skipped.
C28_TotalCountsSkipped ==
    call.pc = "returned" =>
        /\ call.n = callhist.passed
        /\ call.inserted + call.updated <= call.n
        /\ callhist.errors > 0 => call.inserted + call.updated < call.n

\* a call that returned after one record was skipped and one was inserted
C28_Witness ==
    /\ call.pc = "returned"
    /\ callhist.errors = 1
    /\ call.inserted = 1
    /\ call.n = 2


(***************************************************************************)
(* Claims on SpecFetch: the end of the loop of fetch_all_pages             *)
(***************************************************************************)
\* C27: when every response reports the same last_page n and a current_page
\* equal to the page requested, fetch_all_pages makes at most n requests:
\* after the n-th request the loop has ended (with the records or with the
\* error of a failed request) and no further request follows.  A response
\* that carries no meta ends the loop right after that page.
C27_EndsWithinLastPage ==
    LET k == Len(fhist.requests) IN
    /\ upstream.echo =>
          /\ k <= upstream.n
          /\ k = upstream.n => fetcher.pc \in {"returned", "raised"}
          /\ fetcher.pc = "fetching" => fetcher.page = k + 1
    /\ fhist.nometa =>
          /\ fetcher.pc = "returned"
          /\ fetcher.page = fhist.requests[k]

\* C27 witness: the loop ended by a first response without meta after a
\* single request
C27_Witness ==
    /\ fhist.nometa
    /\ fhist.requests = <<1>>
    /\ fetcher.pc = "returned"


(***************************************************************************)
(* Claims on SpecUsd: the result of a conversion that trusts the hint      *)
(***************************************************************************)
\* C29: for a currency of the table with rate K and a positive amount, when
\* the rate hint is trusted the result lies strictly between
\* amount / (1.5 K) and amount / (0.5 K).
C29_TrustedHintWithinBand ==
    (/\ conv.pc = "returned"
     /\ conv.used
     /\ CodeOf(conv.currency) \in DOMAIN CURRENCY_RATES
     /\ RatLt(Zero, conv.amount)) =>
        LET K == CURRENCY_RATES[CodeOf(conv.currency)] IN
        /\ RatLt(RatDiv(conv.amount, RatMul(Rat(15, 10), K)), conv.result)
        /\ RatLt(conv.result, RatDiv(conv.amount, RatMul(Rat(5, 10), K)))

\* the band does hold when the trusted hint is read in the direction in
\* which it passed the test: a hint above 10 that is near K (units per USD),
\* or a hint of at most 10 whose inverse is near K (USD per unit)
C29_BandWhenDirectionAgrees ==
    (/\ conv.pc = "returned"
     /\ conv.used
     /\ CodeOf(conv.currency) \in DOMAIN CURRENCY_RATES
     /\ RatLt(Zero, conv.amount)
     /\ LET K == CURRENCY_RATES[CodeOf(conv.currency)] IN
        IF UnitsPerUSD(conv.rate)
        THEN Matches(conv.rate, K)
        ELSE Matches(RatDiv(Dec(1), conv.rate), K)) =>
        LET K == CURRENCY_RATES[CodeOf(conv.currency)] IN
        /\ RatLt(RatDiv(conv.amount, RatMul(Rat(15, 10), K)), conv.result)
        /\ RatLt(conv.result, RatDiv(conv.amount, RatMul(Rat(5, 10), K)))


(***************************************************************************)
(* Claims on SpecAgg: the status buckets of the weekly metrics             *)
(***************************************************************************)
\* C25: in the weekly metrics each bucket count is the number of the
\* window's rows with that status, other counts the rows whose status is
\* none of the six known ones (a NULL status included), and the seven
\* counts add up to total_transactions, the number of rows in the window.
C25_BucketsPartitionWindow ==
    (agg.pc = "returned" /\ agg.op = "week_metrics") =>
        LET out == agg.out
            known == {"success", "failed", "pending", "declined", "reversed",
                      "processing_swap"}
            n(st) == Cardinality({r \in Window : r.status = st})
        IN  /\ out.total_transactions = Cardinality(Window)
            /\ out.success_count = n("success")
            /\ out.failed_count = n("failed")
            /\ out.pending_count = n("pending")
            /\ out.declined_count = n("declined")
            /\ out.reversed_count = n("reversed")
            /\ out.processing_swap_count = n("processing_swap")
            /\ out.other_count = Cardinality({r \in Window : r.status \notin known})
            /\ out.success_count + out.failed_count + out.pending_count
                   + out.declined_count + out.reversed_count
                   + out.processing_swap_count + out.other_count
               = out.total_transactions

\* C25 witness: a week with a success row, a row of an unrecognized status
\* and a row without a status
C25_Witness ==
    /\ agg.pc = "returned"
    /\ agg.op = "week_metrics"
    /\ \E r \in Window : r.status = None
    /\ \E r \in Window : r.status = "refunded"
    /\ agg.out.success_count = 1
    /\ agg.out.other_count = 2
    /\ agg.out.total_transactions = 3

(***************************************************************************)
(* datetime and timedelta.  A naive datetime is kept the way the datetime  *)
(* module computes with it: the proleptic Gregorian ordinal of its date    *)
(* (date.toordinal, 0001-01-01 is day 1), the second of the day and the    *)
(* microsecond.                                                            *)
(***************************************************************************)
IsLeap(y) == (y % 4 = 0 /\ y % 100 # 0) \/ y % 400 = 0

DaysInMonth(y, mo) ==
    CASE mo \in {4, 6, 9, 11} -> 30
      [] mo = 2 -> (IF IsLeap(y) THEN 29 ELSE 28)
      [] OTHER -> 31

\* days before January 1st of year y
DaysBeforeYear(y) ==
    (y - 1) * 365 + (y - 1) \div 4 - (y - 1) \div 100 + (y - 1) \div 400

RECURSIVE DaysBeforeMonth(_, _)
\* days of year y before the first of month mo
DaysBeforeMonth(y, mo) ==
    IF mo = 1 THEN 0 ELSE DaysBeforeMonth(y, mo - 1) + DaysInMonth(y, mo - 1)

\* date(y, mo, d).toordinal()
Ordinal(y, mo, d) == DaysBeforeYear(y) + DaysBeforeMonth(y, mo) + d

\* the years the model's dates may fall in: the years of the clock readings
\* and one year on either side
Years == {2024, 2025}
CalendarYears == 2023..2026

\* date.fromordinal(n): year, month and day of ordinal n
Ymd(n) ==
    LET y == CHOOSE yy \in CalendarYears :
                 DaysBeforeYear(yy) < n /\ n <= DaysBeforeYear(yy + 1)
        mo == CHOOSE m \in 1..12 :
                 /\ DaysBeforeYear(y) + DaysBeforeMonth(y, m) < n
                 /\ n <= DaysBeforeYear(y) + DaysBeforeMonth(y, m) + DaysInMonth(y, m)
    IN  [year |-> y, month |-> mo, day |-> n - DaysBeforeYear(y) - DaysBeforeMonth(y, mo)]

\* datetime(y, mo, d, second of the day, microsecond)
DateTime(y, mo, d, sec, us) == [ord |-> Ordinal(y, mo, d), sec |-> sec, us |-> us]

\* dt + timedelta(days=days, seconds=secs, microseconds=us), negative parts
\* included: the carries run from microseconds to seconds to days
Plus(dt, days, secs, us) ==
    LET u == dt.us + us
        s == dt.sec + secs + (u \div 1000000)
    IN  [ord |-> dt.ord + days + (s \div 86400), sec |-> s % 86400, us |-> u % 1000000]

\* dt.replace(hour=.., minute=.., second=.., microsecond=..)
AtTime(dt, sec, us) == [dt EXCEPT !.sec = sec, !.us = us]
\* dt.replace(year=y, month=mo, day=d)
AtDate(dt, y, mo, d) == [dt EXCEPT !.ord = Ordinal(y, mo, d)]

\* dt.weekday(): Monday is 0
Weekday(dt) == (dt.ord + 6) % 7

\* a < b and a <= b on datetimes
DtLt(a, b) ==
    \/ a.ord < b.ord
    \/ a.ord = b.ord /\ a.sec < b.sec
    \/ a.ord = b.ord /\ a.sec = b.sec /\ a.us < b.us
DtLe(a, b) == a = b \/ DtLt(a, b)

(***************************************************************************)
(* utils.py: the canned date ranges, with datetime.now() = now             *)
(***************************************************************************)
Range(start_dt, end_dt) == [start |-> start_dt, end |-> end_dt]

get_today_range(t) == Range(AtTime(t, 0, 0), AtTime(t, 86399, 999999))

get_previous_day_range(t) ==
    LET yesterday == Plus(t, -1, 0, 0)
    IN  Range(AtTime(yesterday, 0, 0), AtTime(yesterday, 86399, 999999))

\* (variant: isoweekday() in place of weekday())
get_current_week_range_IsoWeekday(t) ==
    LET start_dt == AtTime(Plus(t, -(Weekday(t) + 1), 0, 0), 0, 0)
    IN  Range(start_dt, Plus(start_dt, 6, 86399, 999999))
get_current_week_range(t) ==
    LET start_dt == AtTime(Plus(t, -Weekday(t), 0, 0), 0, 0)
    IN  Range(start_dt, Plus(start_dt, 6, 86399, 999999))

get_previous_week_range(t) ==
    LET current_week_start == Plus(t, -Weekday(t), 0, 0)
        start_dt == AtTime(Plus(current_week_start, -7, 0, 0), 0, 0)
    IN  Range(start_dt, Plus(start_dt, 6, 86399, 999999))

get_current_month_range(t) ==
    LET d == Ymd(t.ord)
        start_dt == AtTime(AtDate(t, d.year, d.month, 1), 0, 0)
        next_month == IF d.month = 12
                      THEN AtDate(start_dt, d.year + 1, 1, 1)
                      ELSE AtDate(start_dt, d.year, d.month + 1, 1)
    IN  Range(start_dt, Plus(next_month, 0, 0, -1))

get_previous_month_range(t) ==
    LET d == Ymd(t.ord)
        start_dt == IF d.month = 1
                    THEN AtTime(AtDate(t, d.year - 1, 12, 1), 0, 0)
                    ELSE AtTime(AtDate(t, d.year, d.month - 1, 1), 0, 0)
        current_month_start == AtTime(AtDate(t, d.year, d.month, 1), 0, 0)
    IN  Range(start_dt, Plus(current_month_start, 0, 0, -1))

get_year_to_date_range(t) ==
    LET d == Ymd(t.ord)
    IN  Range(AtTime(AtDate(t, d.year, 1, 1), 0, 0), AtTime(t, 86399, 999999))

Intervals ==
    {"today", "previous_day", "current_week", "previous_week", "current_month",
     "previous_month", "year_to_date"}

get_date_range(interval, t) ==
    CASE interval = "today" -> get_today_range(t)
      [] interval = "previous_day" -> get_previous_day_range(t)
      [] interval = "current_week" -> get_current_week_range(t)
      [] interval = "previous_week" -> get_previous_week_range(t)
      [] interval = "current_month" -> get_current_month_range(t)
      [] interval = "previous_month" -> get_previous_month_range(t)
      [] interval = "year_to_date" -> get_year_to_date_range(t)

(***************************************************************************)
(* reports.py: the two windows of the weekly report                        *)
(***************************************************************************)
\* get_week_boundaries(week_start_date), the date string given as its year,
\* month and day: strptime gives midnight of that date
get_week_boundaries(d) ==
    LET week_start == AtTime(DateTime(d.year, d.month, d.day, 0, 0), 0, 0)
    IN  Range(week_start, Plus(week_start, 6, 86399, 0))

\* (variant: the previous week ends at the start of the current one)
ReportWindows_PreviousEndsAtStart(d) ==
    LET current == get_week_boundaries(d)
    IN  [current |-> current,
         previous |-> Range(Plus(current.start, -7, 0, 0), current.start)]
\* generate_weekly_performance_report: current_start, current_end,
\* previous_start, previous_end
ReportWindows(d) ==
    LET current == get_week_boundaries(d)
    IN  [current |-> current,
         previous |-> Range(Plus(current.start, -7, 0, 0),
                            Plus(current.start, 0, -1, 0))]

\* created_at >= start AND created_at <= end (calculate_week_metrics)
InRange(t, w) == DtLe(w.start, t) /\ DtLe(t, w.end)

(***************************************************************************)
(* SpecCal: a clock reading, then either the canned ranges for it or the   *)
(* weekly report's windows for its date together with one created_at       *)
(***************************************************************************)
\* times of the day: midnight, one microsecond later, mid-day, the last
\* microsecond
TimesOfDay == {<<0, 0>>, <<0, 1>>, <<45015, 500000>>, <<86399, 999999>>}

\* created_at values tried against the report's windows: a day relative to
\* the week start and a whole second of that day
ProbeDays == {-8, -7, -4, -1, 0, 3, 6, 7}
ProbeSeconds == {0, 86399}

InitCal ==
    /\ SyncIdle
    /\ conv = NoConv
    /\ wow = NoWow
    /\ txns = {}
    /\ agg = NoAgg
    /\ par = NoPar
    /\ tmr = NoTmr
    /\ \E y \in Years, mo \in 1..12, tod \in TimesOfDay :
          \E d \in 1..DaysInMonth(y, mo) :
              cal = [pc |-> "clock", now |-> DateTime(y, mo, d, tod[1], tod[2])]

calOther == <<syncVars, conv, wow, txns, agg, par, tmr>>

\* get_date_range(interval) for every interval name
CannedRanges ==
    /\ cal.pc = "clock"
    /\ cal' = [pc |-> "ranges", now |-> cal.now,
               ranges |-> [i \in Intervals |-> get_date_range(i, cal.now)]]
    /\ UNCHANGED calOther

\* generate_weekly_performance_report(db, week_start_date) up to its two
\* calculate_week_metrics calls, and a row's created_at
WeeklyReport ==
    /\ cal.pc = "clock"
    /\ \E k \in ProbeDays, s \in ProbeSeconds :
          LET d == Ymd(cal.now.ord)
          IN  cal' = [pc |-> "weekly", now |-> cal.now, week_start_date |-> d,
                      windows |-> ReportWindows(d),
                      created_at |-> [ord |-> Ordinal(d.year, d.month, d.day) + k,
                                      sec |-> s, us |-> 0]]
    /\ UNCHANGED calOther

NextCal ==
    \/ CannedRanges
    \/ WeeklyReport

SpecCal == InitCal /\ [][NextCal]_vars

\* C21: for a week-start date W the report's current window is
\* [W 00:00:00, W + 6 days 23:59:59], its previous window is
\* [W - 7 days 00:00:00, W - 1 second]; the windows do not overlap, and a
\* created_at at a whole second from W - 7 days to W + 6 days 23:59:59 is
\* in exactly one of them.
C21_WeeklyWindows ==
    cal.pc = "weekly" =>
        LET W == Ordinal(cal.week_start_date.year, cal.week_start_date.month,
                         cal.week_start_date.day)
            w == cal.windows
            t == cal.created_at
        IN  /\ w.current = Range([ord |-> W, sec |-> 0, us |-> 0],
                                 [ord |-> W + 6, sec |-> 86399, us |-> 0])
            /\ w.previous = Range([ord |-> W - 7, sec |-> 0, us |-> 0],
                                  [ord |-> W - 1, sec |-> 86399, us |-> 0])
            /\ DtLt(w.previous.end, w.current.start)
            /\ (t.ord \in (W - 7)..(W + 6)) =>
                  (InRange(t, w.current) /\ ~InRange(t, w.previous))
                  \/ (InRange(t, w.previous) /\ ~InRange(t, w.current))

\* C21 witness: a report for a week that starts on January 1st, tried with
\* a created_at at the last second of the previous year
C21_Witness ==
    /\ cal.pc = "weekly"
    /\ cal.week_start_date = [year |-> 2025, month |-> 1, day |-> 1]
    /\ Ymd(cal.created_at.ord) = [year |-> 2024, month |-> 12, day |-> 31]
    /\ cal.created_at.sec = 86399
    /\ cal.created_at = cal.windows.previous.end

\* C26: for every clock reading each canned window has start <= end; today,
\* current week, current month and year-to-date contain the reading; the
\* current week starts on a Monday at 00:00:00; the previous week and the
\* previous month end one microsecond before the current week and the
\* current month start, so a previous window and its current window share
\* no timestamp.
C26_CannedWindows ==
    cal.pc = "ranges" =>
        LET r == cal.ranges IN
        /\ \A i \in Intervals : DtLe(r[i].start, r[i].end)
        /\ \A i \in {"today", "current_week", "current_month", "year_to_date"} :
              DtLe(r[i].start, cal.now) /\ DtLe(cal.now, r[i].end)
        /\ r["current_week"].start.ord % 7 = 1
        /\ r["current_week"].start.sec = 0
        /\ r["current_week"].start.us = 0
        /\ Plus(r["previous_week"].end, 0, 0, 1) = r["current_week"].start
        /\ Plus(r["previous_month"].end, 0, 0, 1) = r["current_month"].start
        /\ DtLt(r["previous_week"].end, r["current_week"].start)
        /\ DtLt(r["previous_month"].end, r["current_month"].start)

\* C26 witness: the ranges for the last microsecond of Sunday 2025-01-05:
\* the current week started on Monday 2024-12-30 and the previous month is
\* December of the year before
C26_Witness ==
    /\ cal.pc = "ranges"
    /\ Ymd(cal.now.ord) = [year |-> 2025, month |-> 1, day |-> 5]
    /\ cal.now.sec = 86399
    /\ cal.now.us = 999999
    /\ Ymd(cal.ranges["current_week"].start.ord) = [year |-> 2024, month |-> 12, day |-> 30]
    /\ Ymd(cal.ranges["previous_month"].start.ord) = [year |-> 2024, month |-> 12, day |-> 1]
    /\ cal.ranges["current_week"].end = cal.now

(***************************************************************************)
(* SpecTimer: the scheduled job against a clock.  The scheduler was        *)
(* started at clock 0 (lifespan startup) with the job of start():          *)
(* IntervalTrigger(minutes=30), max_instances=1, misfire_grace_time=300,   *)
(* and the scheduler's default of coalescing the run times that have       *)
(* piled up into the latest one.  The clock is in seconds.  The event loop *)
(* gets to the due job at the run time or any time later.                  *)
(***************************************************************************)
\* IntervalTrigger(minutes=30), in seconds
interval_length == 1800
\* add_job(.., misfire_grace_time=300)
misfire_grace_time == 300

\* the clock stops here
MaxClock == 5700
\* the steps of the clock between two looks at it
Delays == {300, 400, 1500}

\* the latest run time that is due at clock t, for a job whose next run
\* time is next_run_time <= t (coalescing)
DueRunTime(next_run_time, t) ==
    next_run_time + ((t - next_run_time) \div interval_length) * interval_length

\* (variant: no misfire grace time, a run is never too late)
Missed_NoGrace(run_time, t) == FALSE
\* the run scheduled for run_time, looked at at clock t, is too late to run
Missed(run_time, t) == t - run_time > misfire_grace_time

NoRun == [run_time |-> 0, at |-> 0, result |-> "none"]

InitTimer ==
    /\ cache = {}
    /\ now = 1
    /\ found_rows = FALSE
    /\ on_update_ts = FALSE
    /\ call = Idle
    /\ hist = [i \in Ids |-> NoHist]
    /\ callhist = [h |-> [i \in Ids |-> NoHist], errors |-> 0, ids |-> {}, passed |-> 0]
    /\ twice = NoTwice
    /\ upstream = NoUpstream
    /\ fetcher = NoFetch
    /\ fhist = NoFetchHist
    /\ sched = start(NewScheduler).sched
    /\ exec = [p \in Procs |-> NoExec]
    /\ watch = NoWatch
    /\ conv = NoConv
    /\ wow = NoWow
    /\ txns = {}
    /\ agg = NoAgg
    /\ cal = NoCal
    /\ par = NoPar
    /\ tmr = [pc |-> "on", clock |-> 0, start_date |-> interval_length,
              next_run_time |-> interval_length, last |-> NoRun,
              after_failure |-> FALSE]

timerOther == <<now, found_rows, on_update_ts, call, hist, callhist, twice,
                fetchVars, conv, wow, txns, agg, cal, par>>

\* time passes
Advance ==
    /\ \E d \in Delays :
          /\ tmr.clock + d <= MaxClock
          /\ tmr' = [tmr EXCEPT !.clock = tmr.clock + d]
    /\ UNCHANGED <<sched, exec, watch, cache>>

\* the scheduler gets to the due job: of the run times that are due the
\* latest is taken; it is dropped when the job's instances have reached
\* max_instances, skipped as missed when it is more than misfire_grace_time
\* late, and run otherwise; the next run time is one interval after it
Wakeup ==
    /\ sched.state = "running"
    /\ JobRegistered(sched)
    /\ tmr.next_run_time <= tmr.clock
    /\ LET run_time == DueRunTime(tmr.next_run_time, tmr.clock)
           missed == CanSubmit(sched.instances) /\ Missed(run_time, tmr.clock)
       IN  /\ IF missed
              THEN /\ watch' = [watch EXCEPT !.fire_parity = ~watch.fire_parity,
                                             !.last_fire = "missed"]
                   /\ UNCHANGED <<exec, sched, cache>>
              ELSE Fire
           /\ tmr' = [tmr EXCEPT
                  !.next_run_time = run_time + interval_length,
                  !.last = [run_time |-> run_time, at |-> tmr.clock,
                            result |-> watch'.last_fire],
                  !.after_failure =
                      /\ ~missed
                      /\ CanSubmit(sched.instances)
                      /\ exec["job1"].pc \in {"raised", "merge_raised"}]

NextTimer ==
    \/ Advance /\ UNCHANGED timerOther
    \/ Wakeup /\ UNCHANGED timerOther
    \/ \E p \in SchedSlots : SyncFetch(p) /\ UNCHANGED <<timerOther, tmr>>
    \/ \E p \in SchedSlots : SyncMerge(p) /\ UNCHANGED <<timerOther, tmr>>

SpecTimer == InitTimer /\ [][NextTimer]_vars

\* the scheduled executions that ended with an error of the fetch or of the
\* merge
Failed(p) == exec[p].pc \in {"raised", "merge_raised"}

\* C22: a fire of the scheduled job that could not start within the misfire
\* grace period (300 seconds after its run time) is skipped: the step that
\* finds it starts no execution, no execution starts later for that run
\* time (an execution starts only in the step that takes its run time, at
\* most 300 seconds after it), and the next run time is the next point of
\* the regular 30-minute grid.
C22_MisfireSkipped ==
    /\ [](/\ tmr.last.result = "missed" => tmr.last.at - tmr.last.run_time > 300
          /\ tmr.last.result = "started" => tmr.last.at - tmr.last.run_time <= 300
          /\ tmr.last.result # "none" =>
                /\ tmr.next_run_time = tmr.last.run_time + 1800
                /\ tmr.last.run_time % 1800 = 0
                /\ tmr.last.run_time <= tmr.last.at
                /\ tmr.last.at < tmr.next_run_time)
    /\ [][/\ (tmr'.last # tmr.last /\ tmr'.last.at - tmr'.last.run_time > 300) =>
                /\ exec' = exec
                /\ tmr'.last.result # "started"
          /\ \A p \in SchedSlots :
                (~Active(p) /\ exec'[p].pc \in {"fetching", "returned"}) =>
                    /\ tmr'.last # tmr.last
                    /\ tmr'.last.result = "started"
                    /\ tmr'.last.at = tmr.clock
                    /\ tmr.clock - tmr'.last.run_time <= 300
          /\ tmr'.last # tmr.last => tmr'.last.run_time > tmr.last.run_time]_vars

\* C22 witness: the run of 1800 was looked at 400 seconds late and skipped:
\* no execution was started
C22_Witness ==
    /\ tmr.last = [run_time |-> 1800, at |-> 2200, result |-> "missed"]
    /\ \A p \in Procs : exec[p] = NoExec

Sessions == {"s1", "s2"}

\* the most records of one day
MaxDayRecords == 2

\* what the upstream holds for the two days
DayPool(k) ==
    IF k = "s1"
    THEN {RecA, Payload("a", "100", "failed", "T2Z")}
    ELSE {RecB2, RecC}

DayBatches(k) ==
    UNION {[1..n -> DayPool(k)] : n \in 1..MaxDayRecords}

\* the table before the two executions
StoredBefore ==
    {{},
     {[id |-> "a", amount |-> "100", status |-> "failed", created_at |-> 1,
       cached_at |-> 1, updated_at |-> 1],
      [id |-> "b", amount |-> "100", status |-> "success", created_at |-> 1,
       cached_at |-> 1, updated_at |-> 1]}}

\* rows with the rows of the same ids replaced by those of writes
Overlay(rows, writes) ==
    {r \in rows : \A w \in writes : w.id # r.id} \cup writes

\* the rows a session's own statements work on: the committed rows and what
\* the session has written
SessionView(committed, writes) == Overlay(committed, writes)

\* (variant: a commit that leaves only the session's rows in the table)
Commit_OwnRowsOnly(committed, writes) == writes
\* db.commit(): the session's rows become the committed ones
Commit(committed, writes) == Overlay(committed, writes)

\* (variant: a query reads committed rows only)
QueryView_CommittedOnly(committed, pending) == committed
\* the rows a query of another session reads while sessions hold the
\* uncommitted writes pending: the store keeps no isolation between a merge
\* and a reader, each upsert is readable once it is executed
QueryView(committed, pending) == Overlay(committed, pending)

\* the columns of a row that come from the upstream record
PayloadColumns(rows) ==
    {[id |-> r.id, amount |-> r.amount, status |-> r.status,
      created_at |-> r.created_at] : r \in rows}

NoSession == [pc |-> "fetching", todo |-> <<>>, writes |-> {}, st |-> Idle]
NoRead == [pc |-> "none", rows |-> {}, done |-> [k \in Sessions |-> 0],
           merging |-> {}]

InitPar ==
    /\ cache = {}
    /\ now = 1
    /\ found_rows = FALSE
    /\ on_update_ts = FALSE
    /\ call = Idle
    /\ hist = [i \in Ids |-> NoHist]
    /\ callhist = [h |-> [i \in Ids |-> NoHist], errors |-> 0, ids |-> {}, passed |-> 0]
    /\ twice = NoTwice
    /\ upstream = NoUpstream
    /\ fetcher = NoFetch
    /\ fhist = NoFetchHist
    /\ sched = NewScheduler
    /\ exec = [p \in Procs |-> NoExec]
    /\ watch = NoWatch
    /\ conv = NoConv
    /\ wow = NoWow
    /\ txns = {}
    /\ agg = NoAgg
    /\ cal = NoCal
    /\ tmr = NoTmr
    /\ \E before \in StoredBefore :
       \E b1 \in DayBatches("s1") :
       \E b2 \in DayBatches("s2") :
          par = [pc |-> "on",
                 before |-> before,
                 committed |-> before,
                 batch |-> [k \in Sessions |-> IF k = "s1" THEN b1 ELSE b2],
                 s |-> [k \in Sessions |-> NoSession],
                 rd |-> NoRead]

parOther == <<cache, found_rows, on_update_ts, call, hist, callhist, twice,
              fetchVars, sysVars, conv, wow, txns, agg, cal, tmr>>

\* transactions = await self.fetch_all_pages(day=day_str)
ParFetch(k) ==
    /\ par.s[k].pc = "fetching"
    /\ par' = [par EXCEPT !.s[k].pc = "merging",
                          !.s[k].todo = par.batch[k],
                          !.s[k].st = [Idle EXCEPT !.pc = "running"]]
    /\ UNCHANGED now

\* one iteration of the loop of sync_to_database in session k
ParUpsert(k) ==
    /\ par.s[k].pc = "merging"
    /\ par.s[k].todo # <<>>
    /\ LET view == SessionView(par.committed, par.s[k].writes)
           st == SyncRecord([par.s[k].st EXCEPT !.rows = view],
                            Head(par.s[k].todo), now, found_rows, on_update_ts)
       IN  par' = [par EXCEPT !.s[k].todo = Tail(par.s[k].todo),
                              !.s[k].writes = st.rows \ par.committed,
                              !.s[k].st = [st EXCEPT !.rows = {}]]
    /\ UNCHANGED now

\* db.commit() after the loop, and the counts returned; the clock moves on
ParCommit(k) ==
    /\ par.s[k].pc = "merging"
    /\ par.s[k].todo = <<>>
    /\ par' = [par EXCEPT !.committed = Commit(par.committed, par.s[k].writes),
                          !.s[k].pc = "done",
                          !.s[k].writes = {},
                          !.s[k].st.pc = "returned"]
    /\ now' = IF now < MaxTime THEN now + 1 ELSE now

\* base_query of get_period_stats (a sync endpoint, run on a worker thread
\* while the merges run on the event loop): the rows it reads, with what
\* each session had done by then
ParRead ==
    /\ par.rd.pc = "none"
    /\ par' = [par EXCEPT !.rd =
          [pc |-> "read",
           rows |-> PayloadColumns(
                        QueryView(par.committed,
                                  UNION {par.s[k].writes : k \in Sessions})),
           done |-> [k \in Sessions |->
                        IF par.s[k].pc = "fetching" THEN 0
                        ELSE Len(par.batch[k]) - Len(par.s[k].todo)],
           merging |-> {k \in Sessions : par.s[k].pc = "merging"}]]
    /\ UNCHANGED now

NextPar ==
    \/ \E k \in Sessions : ParFetch(k) /\ UNCHANGED parOther
    \/ \E k \in Sessions : ParUpsert(k) /\ UNCHANGED parOther
    \/ \E k \in Sessions : ParCommit(k) /\ UNCHANGED parOther
    \/ ParRead /\ UNCHANGED parOther

SpecPar == InitPar /\ [][NextPar]_vars

\* the rows after the loop of sync_to_database over batch on rows
LoopRows(batch, rows) ==
    SyncLoop([Idle EXCEPT !.pc = "running", !.rows = rows],
             batch, 1, FALSE, FALSE).rows

\* the first n records of a batch
Prefix(batch, n) == SubSeq(batch, 1, n)

\* the ids of the records of a batch
BatchIds(batch) == {batch[j].id : j \in 1..Len(batch)}

\* C23: an aggregation that runs while a merge is in progress reads the
\* table with the upserts that the merging sessions have executed so far
\* and without those still to come: it can see some records of a batch and
\* not the others.
C23_ReadSeesExecutedUpserts ==
    par.rd.pc = "read" =>
        par.rd.rows =
            PayloadColumns(
                LoopRows(Prefix(par.batch["s2"], par.rd.done["s2"]),
                         LoopRows(Prefix(par.batch["s1"], par.rd.done["s1"]),
                                  par.before)))

\* C23 witness: the read came while s2 was merging the batch (c, b) into
\* the empty table; it saw the row of c and no row of b
C23_Witness ==
    /\ par.rd.pc = "read"
    /\ par.before = {}
    /\ par.batch["s2"] = <<RecC, RecB2>>
    /\ par.rd.merging = {"s2"}
    /\ par.rd.done["s2"] = 1
    /\ \E r \in par.rd.rows : r.id = "c"
    /\ \A r \in par.rd.rows : r.id # "b"

\* C24: two executions for different days whose records have disjoint ids,
\* under any interleaving of their fetches, upserts and commits, leave in
\* the table the rows that running one after the other, in either order,
\* leaves (the columns taken from the records; cached_at and updated_at are
\* clock readings).
C24_InterleavedAsSequential ==
    (\A k \in Sessions : par.s[k].pc = "done") =>
        /\ BatchIds(par.batch["s1"]) \cap BatchIds(par.batch["s2"]) = {}
        /\ PayloadColumns(par.committed) =
               PayloadColumns(
                   sync_to_database(par.batch["s2"],
                       sync_to_database(par.batch["s1"], par.before,
                                        1, FALSE, FALSE).rows,
                       2, FALSE, FALSE).rows)
        /\ PayloadColumns(par.committed) =
               PayloadColumns(
                   sync_to_database(par.batch["s1"],
                       sync_to_database(par.batch["s2"], par.before,
                                        1, FALSE, FALSE).rows,
                       2, FALSE, FALSE).rows)

\* C24 witness: both executions are done; s2 committed first although s1
\* had started to merge before (the row of c was cached before the clock
\* moved, the row of a replaced a stored one), and both batches changed the
\* table
C24_Witness ==
    /\ \A k \in Sessions : par.s[k].pc = "done"
    /\ par.before # {}
    /\ par.batch["s1"] = <<RecA>>
    /\ par.batch["s2"] = <<RecC, RecB2>>
    /\ par.s["s1"].st.updated = 1
    /\ par.s["s2"].st.inserted = 1
    /\ par.s["s2"].st.updated = 1
    /\ par.rd.pc = "read"
    /\ par.rd.merging = Sessions
    /\ par.rd.done = [k \in Sessions |-> 1]

====
